---- MODULE Spec2Model ----
(***************************************************************************)
(* FinCoach: the rule-based insight engine (keyword classifier, CSV        *)
(* ingestor, date normaliser, spend aggregator, advice generator) and the  *)
(* local-storage screens that feed it.                                     *)
(*                                                                         *)
(* JavaScript strings are modelled as sequences of characters, a character *)
(* being a one-element TLA+ string ("a", ","); the characters that have no *)
(* ASCII spelling are named: "LF" (line feed), "RUPEE" (U+20B9), and the   *)
(* three characters the amount regex of parseCSV really holds, "ACIRC"     *)
(* (U+00E2), "LOWQUOTE" (U+201A) and "SUPONE" (U+00B9).                     *)
(* Identifiers and category names, which the code only compares whole,     *)
(* are TLA+ strings.                                                       *)
(***************************************************************************)
EXTENDS Integers, Sequences, FiniteSets, TLC

VARIABLES
    mode,          \* which component the behaviour exercises
    pc,            \* "input" before the call under study, "done" after it
    description,   \* categorizeExpense: argument description
    categories,    \* categorizeExpense: argument categories
    categoryId,    \* categorizeExpense: what the call returned or threw
    csvContent,    \* parseCSV: argument csvContent
    today,         \* new Date().toISOString().split('T')[0] at the time of the call
    parsed,        \* parseCSV: [status, transactions], what the call returned or threw
    calDate,       \* the calendar date [year, month, day] a date field spells
    dateFormat,    \* the spelling used: "YYYY-MM-DD", "DD/MM/YYYY" or "DD-MM-YYYY"
    dateInput,     \* parseDate: argument dateStr
    isoDate,       \* parseDate: the string returned
    expenses,      \* generateAdvice: argument expenses
    goal,          \* generateAdvice: argument goal (NoGoal for null)
    clock,         \* Date.now() at the time of the call
    advice,        \* generateAdvice: the array returned
    user,          \* AuthContext: the logged-in user's id, "null" when logged out
    currentTab,    \* AppContent: the tab whose screen is mounted while logged in
    storedExpenses,\* localStorage fincoach_expenses
    insights,      \* Dashboard: state insights
    upload,        \* ExpenseManager: the classify request in flight, if any
    message,       \* generateChatResponse: parameter message
    aiResponse,    \* generateChatResponse: the string returned
    alerts,        \* detectAnomalies: the array returned
    tzOffset,      \* the runtime's time zone: minutes that local time is ahead of UTC
    timeOfDay,     \* new Date(): the minutes of today (UTC) that have passed
    results,       \* the results of the invocations made so far with the same arguments
    storedUsers,   \* localStorage fincoach_users
    storedCurrentUser, \* localStorage fincoach_current_user: no User or one
    authUser,      \* AuthProvider: state user, no User or one
    returned,      \* the last call of the auth context: its name, username and result
    storedGoals,   \* localStorage fincoach_goals
    weeklyData     \* Dashboard: state weeklyData

vars == <<mode, pc, description, categories, categoryId, csvContent, today, parsed,
          calDate, dateFormat, dateInput, isoDate, expenses, goal, clock, advice,
          user, currentTab, storedExpenses, insights, upload,
          message, aiResponse, alerts, tzOffset, timeOfDay, results,
          storedUsers, storedCurrentUser, authUser, returned, storedGoals, weeklyData>>

clsVars == <<description, categories, categoryId>>
csvVars == <<csvContent, today, parsed>>
dateVars == <<calDate, dateFormat, dateInput, isoDate>>
advVars == <<expenses, goal, clock, advice>>
scrVars == <<storedUsers, storedCurrentUser, authUser, returned, storedGoals>>
appVars == <<user, currentTab, storedExpenses, insights, upload, scrVars, weeklyData>>
engVars == <<message, aiResponse, alerts, tzOffset, timeOfDay, results>>

\* the variables of a component a behaviour does not exercise keep these values
ClsIdle == description = <<>> /\ categories = <<>> /\ categoryId = "none"
CsvIdle ==
    csvContent = <<>> /\ today = <<>> /\ parsed = [status |-> "none", transactions |-> <<>>]
DateIdle ==
    /\ calDate = [year |-> 0, month |-> 0, day |-> 0]
    /\ dateFormat = "none"
    /\ dateInput = <<>>
    /\ isoDate = <<>>
AdvIdle ==
    /\ expenses = <<>>
    /\ goal = [present |-> FALSE, monthlyTarget |-> 0, active |-> FALSE]
    /\ clock = 0
    /\ advice = <<>>
ScrIdle ==
    /\ storedUsers = <<>>
    /\ storedCurrentUser = <<>>
    /\ authUser = <<>>
    /\ returned = <<"none">>
    /\ storedGoals = <<>>
AppIdle ==
    /\ ScrIdle
    /\ weeklyData = <<>>
    /\ user = "null"
    /\ currentTab = "dashboard"
    /\ storedExpenses = <<>>
    /\ insights = <<>>
    /\ upload = [pending |-> FALSE, userId |-> "null", live |-> FALSE]
EngIdle ==
    /\ message = <<>>
    /\ aiResponse = <<>>
    /\ alerts = <<>>
    /\ tzOffset = 0
    /\ timeOfDay = 0
    /\ results = <<>>

(***************************************************************************)
(* String primitives of the JavaScript runtime, as the code uses them.     *)
(***************************************************************************)
UpperCase == <<"A","B","C","D","E","F","G","H","I","J","K","L","M",
               "N","O","P","Q","R","S","T","U","V","W","X","Y","Z">>

LowerCase == <<"a","b","c","d","e","f","g","h","i","j","k","l","m",
               "n","o","p","q","r","s","t","u","v","w","x","y","z">>

\* String.prototype.toLowerCase on one character
LowerChar(c) ==
    IF \E i \in 1..Len(UpperCase) : UpperCase[i] = c
    THEN LowerCase[CHOOSE i \in 1..Len(UpperCase) : UpperCase[i] = c]
    ELSE c

\* String.prototype.toLowerCase
toLowerCase(s) == [i \in 1..Len(s) |-> LowerChar(s[i])]

\* String.prototype.includes
includes(s, sub) ==
    \E i \in 0..(Len(s) - Len(sub)) : SubSeq(s, i + 1, i + Len(sub)) = sub

\* the outcome of a call that throws instead of returning
TypeError == "TypeError"

(***************************************************************************)
(* utils/categories.ts                                                     *)
(***************************************************************************)

\* FirstMatch without the early return: the last matching category wins
FirstMatchKeepsLooping(lowerDesc, cats) ==
    LET hit(i) == /\ cats[i].name # "Others"
                  /\ \E k \in 1..Len(cats[i].keywords) :
                        includes(lowerDesc, toLowerCase(cats[i].keywords[k]))
    IN  IF \E i \in 1..Len(cats) : hit(i)
        THEN CHOOSE i \in 1..Len(cats) :
                hit(i) /\ \A j \in (i + 1)..Len(cats) : ~hit(j)
        ELSE 0

\* the index of the first category the keyword loop returns from, 0 if none
FirstMatch(lowerDesc, cats) ==
    LET hit(i) == /\ cats[i].name # "Others"
                  /\ \E k \in 1..Len(cats[i].keywords) :
                        includes(lowerDesc, toLowerCase(cats[i].keywords[k]))
    IN  IF \E i \in 1..Len(cats) : hit(i)
        THEN CHOOSE i \in 1..Len(cats) : hit(i) /\ \A j \in 1..(i - 1) : ~hit(j)
        ELSE 0

\* Array.prototype.find(c => c.name === 'Others'): its index, 0 for undefined
FindOthers(cats) ==
    IF \E i \in 1..Len(cats) : cats[i].name = "Others"
    THEN CHOOSE i \in 1..Len(cats) :
            /\ cats[i].name = "Others"
            /\ \A j \in 1..(i - 1) : cats[j].name # "Others"
    ELSE 0

\* the fallback that reads the id of a missing last category as the empty id
FallbackIdOfMissingLast(cats) ==
    LET o == FindOthers(cats)
    IN  IF o # 0 /\ cats[o].id # ""
        THEN cats[o].id
        ELSE IF Len(cats) = 0 THEN "" ELSE cats[Len(cats)].id

\* categories.find(...)?.id || categories[categories.length - 1].id
\* (a || b is b when a is undefined or the empty string; reading .id of
\* categories[-1], which is undefined, throws)
FallbackId(cats) ==
    LET o == FindOthers(cats)
    IN  IF o # 0 /\ cats[o].id # ""
        THEN cats[o].id
        ELSE IF Len(cats) = 0 THEN TypeError ELSE cats[Len(cats)].id

DEFAULT_CATEGORIES ==
    <<[id |-> "cat-1", name |-> "Food",
       keywords |-> <<<<"s", "w", "i", "g", "g", "y">>,
                      <<"z", "o", "m", "a", "t", "o">>,
                      <<"f", "o", "o", "d">>,
                      <<"r", "e", "s", "t", "a", "u", "r", "a", "n", "t">>,
                      <<"c", "a", "f", "e">>,
                      <<"d", "o", "m", "i", "n", "o", "s">>,
                      <<"m", "c", "d", "o", "n", "a", "l", "d">>,
                      <<"k", "f", "c">>,
                      <<"p", "i", "z", "z", "a">>,
                      <<"b", "u", "r", "g", "e", "r">>,
                      <<"d", "i", "n", "i", "n", "g">>,
                      <<"l", "u", "n", "c", "h">>,
                      <<"d", "i", "n", "n", "e", "r">>,
                      <<"b", "r", "e", "a", "k", "f", "a", "s", "t">>>>],
      [id |-> "cat-2", name |-> "Travel",
       keywords |-> <<<<"u", "b", "e", "r">>,
                      <<"o", "l", "a">>,
                      <<"r", "a", "p", "i", "d", "o">>,
                      <<"m", "e", "t", "r", "o">>,
                      <<"p", "e", "t", "r", "o", "l">>,
                      <<"f", "u", "e", "l">>,
                      <<"b", "u", "s">>,
                      <<"t", "r", "a", "i", "n">>,
                      <<"f", "l", "i", "g", "h", "t">>,
                      <<"t", "a", "x", "i">>,
                      <<"t", "r", "a", "n", "s", "p", "o", "r", "t">>,
                      <<"c", "o", "m", "m", "u", "t", "e">>>>],
      [id |-> "cat-3", name |-> "Shopping",
       keywords |-> <<<<"a", "m", "a", "z", "o", "n">>,
                      <<"f", "l", "i", "p", "k", "a", "r", "t">>,
                      <<"m", "y", "n", "t", "r", "a">>,
                      <<"a", "j", "i", "o">>,
                      <<"s", "h", "o", "p", "p", "i", "n", "g">>,
                      <<"m", "a", "l", "l">>,
                      <<"r", "e", "t", "a", "i", "l">>,
                      <<"s", "t", "o", "r", "e">>,
                      <<"o", "n", "l", "i", "n", "e">>,
                      <<"p", "u", "r", "c", "h", "a", "s", "e">>>>],
      [id |-> "cat-4", name |-> "Bills",
       keywords |-> <<<<"e", "l", "e", "c", "t", "r", "i", "c", "i", "t", "y">>,
                      <<"w", "a", "t", "e", "r">>,
                      <<"g", "a", "s">>,
                      <<"b", "i", "l", "l">>,
                      <<"u", "t", "i", "l", "i", "t", "y">>,
                      <<"i", "n", "t", "e", "r", "n", "e", "t">>,
                      <<"b", "r", "o", "a", "d", "b", "a", "n", "d">>,
                      <<"m", "o", "b", "i", "l", "e">>,
                      <<"r", "e", "c", "h", "a", "r", "g", "e">>,
                      <<"p", "h", "o", "n", "e">>>>],
      [id |-> "cat-5", name |-> "Subscriptions",
       keywords |-> <<<<"n", "e", "t", "f", "l", "i", "x">>,
                      <<"p", "r", "i", "m", "e">>,
                      <<"s", "p", "o", "t", "i", "f", "y">>,
                      <<"s", "u", "b", "s", "c", "r", "i", "p", "t", "i", "o", "n">>,
                      <<"m", "e", "m", "b", "e", "r", "s", "h", "i", "p">>,
                      <<"g", "y", "m">>,
                      <<"y", "o", "u", "t", "u", "b", "e">>,
                      <<"d", "i", "s", "n", "e", "y">>,
                      <<"h", "o", "t", "s", "t", "a", "r">>>>],
      [id |-> "cat-6", name |-> "Others",
       keywords |-> <<>>]>>

categorizeExpense(desc, cats) ==
    LET lowerDesc == toLowerCase(desc)
        m == FirstMatch(lowerDesc, cats)
    IN  IF m # 0 THEN cats[m].id ELSE FallbackId(cats)

(***************************************************************************)
(* More of the JavaScript runtime: trim, split, parseFloat.                *)
(***************************************************************************)
WhiteSpace == {" ", "LF", "CR", "TAB"}

Digits == <<"0", "1", "2", "3", "4", "5", "6", "7", "8", "9">>

IsDigit(c) == \E i \in 1..Len(Digits) : Digits[i] = c

DigitValue(c) == (CHOOSE i \in 1..Len(Digits) : Digits[i] = c) - 1

RECURSIVE trimStart(_)
trimStart(s) ==
    IF s # <<>> /\ Head(s) \in WhiteSpace THEN trimStart(Tail(s)) ELSE s

RECURSIVE trimEnd(_)
trimEnd(s) ==
    IF s # <<>> /\ s[Len(s)] \in WhiteSpace
    THEN trimEnd(SubSeq(s, 1, Len(s) - 1))
    ELSE s

\* String.prototype.trim
trim(s) == trimEnd(trimStart(s))

\* String.prototype.split(sep) for a one-character separator: "" splits into
\* [""], "a," into ["a", ""]
RECURSIVE split(_, _)
split(s, sep) ==
    IF \E i \in 1..Len(s) : s[i] = sep
    THEN LET i == CHOOSE k \in 1..Len(s) : s[k] = sep /\ \A j \in 1..(k - 1) : s[j] # sep
         IN  <<SubSeq(s, 1, i - 1)>> \o split(SubSeq(s, i + 1, Len(s)), sep)
    ELSE <<s>>

RECURSIVE Pow10(_)
Pow10(n) == IF n <= 0 THEN 1 ELSE 10 * Pow10(n - 1)

\* the length of the longest prefix of s made of digits
RECURSIVE DigitRun(_)
DigitRun(s) == IF s # <<>> /\ IsDigit(Head(s)) THEN 1 + DigitRun(Tail(s)) ELSE 0

\* the number a string of digits spells
RECURSIVE DigitsValue(_)
DigitsValue(s) ==
    IF s = <<>> THEN 0 ELSE 10 * DigitsValue(SubSeq(s, 1, Len(s) - 1)) + DigitValue(s[Len(s)])

\* JavaScript numbers are modelled exactly, as fractions n / d in lowest terms
\* with d > 0 (no rounding to binary floating point), plus NaN and the two
\* infinities (n is the sign)
RECURSIVE GCD(_, _)
GCD(a, b) == IF b = 0 THEN a ELSE GCD(b, a % b)

Abs(x) == IF x < 0 THEN 0 - x ELSE x

Number(n, d) ==
    LET g == GCD(Abs(n), Abs(d))
        sgn == IF d < 0 THEN -1 ELSE 1
    IN  [kind |-> "number", n |-> (sgn * n) \div g, d |-> (sgn * d) \div g]

NaN == [kind |-> "NaN", n |-> 0, d |-> 1]

Infinity == [kind |-> "Infinity", n |-> 1, d |-> 1]

\* the decimal number m / 10^s
Decimal(m, s) == IF s < 0 THEN Number(m * Pow10(0 - s), 1) ELSE Number(m, Pow10(s))

\* parseFloat: skips leading white space, reads the longest prefix that is a
\* decimal literal (sign, digits, fraction, exponent, or Infinity) and ignores
\* whatever follows it; NaN when there is no such prefix
parseFloat(str) ==
    LET t == trimStart(str)
        signed == t # <<>> /\ Head(t) \in {"+", "-"}
        neg == t # <<>> /\ Head(t) = "-"
        u == IF signed THEN Tail(t) ELSE t
        ni == DigitRun(u)
        afterInt == SubSeq(u, ni + 1, Len(u))
        dot == afterInt # <<>> /\ Head(afterInt) = "."
        nf == IF dot THEN DigitRun(Tail(afterInt)) ELSE 0
        afterFrac == IF dot THEN SubSeq(afterInt, nf + 2, Len(afterInt)) ELSE afterInt
        expMark == afterFrac # <<>> /\ Head(afterFrac) \in {"e", "E"}
        e1 == IF expMark THEN Tail(afterFrac) ELSE <<>>
        expSigned == e1 # <<>> /\ Head(e1) \in {"+", "-"}
        e2 == IF expSigned THEN Tail(e1) ELSE e1
        ne == DigitRun(e2)
        expo == IF ne = 0 THEN 0
                ELSE IF Head(e1) = "-" THEN 0 - DigitsValue(SubSeq(e2, 1, ne))
                ELSE DigitsValue(SubSeq(e2, 1, ne))
        mant == DigitsValue(SubSeq(u, 1, ni) \o (IF dot THEN SubSeq(afterInt, 2, nf + 1) ELSE <<>>))
    IN  IF Len(u) >= 8 /\ SubSeq(u, 1, 8) = <<"I", "n", "f", "i", "n", "i", "t", "y">>
        THEN [Infinity EXCEPT !.n = IF neg THEN -1 ELSE 1]
        ELSE IF ni + nf = 0 THEN NaN
        ELSE Decimal(IF neg THEN 0 - mant ELSE mant, nf - expo)

isNaN(x) == x.kind = "NaN"

\* x > 0 for a number x (false for NaN)
Positive(x) == x.kind # "NaN" /\ x.n > 0

(***************************************************************************)
(* utils/csvParser.ts                                                      *)
(***************************************************************************)

\* one position of a regular expression: "d" stands for \d, anything else
\* for itself
RegexAt(c, p) == IF p = "d" THEN IsDigit(c) ELSE c = p

\* String.prototype.match for a pattern without repetition: the 0-based
\* offset of the leftmost match, -1 when there is none
match(s, pat) ==
    LET at(off) == \A p \in 1..Len(pat) : RegexAt(s[off + p], pat[p])
    IN  IF \E off \in 0..(Len(s) - Len(pat)) : at(off)
        THEN CHOOSE off \in 0..(Len(s) - Len(pat)) :
                at(off) /\ \A o \in 0..(off - 1) : ~at(o)
        ELSE -1

FormatISO == <<"d", "d", "d", "d", "-", "d", "d", "-", "d", "d">>

FormatSlash == <<"d", "d", "/", "d", "d", "/", "d", "d", "d", "d">>

FormatDash == <<"d", "d", "-", "d", "d", "-", "d", "d", "d", "d">>

\* the day-first formats read month-first: `${match[3]}-${match[1]}-${match[2]}`
MonthFirstToISO(s, off) ==
    SubSeq(s, off + 7, off + 10) \o <<"-">> \o SubSeq(s, off + 1, off + 2)
        \o <<"-">> \o SubSeq(s, off + 4, off + 5)

\* `${match[3]}-${match[2]}-${match[1]}` for the two day-first formats
DayFirstToISO(s, off) ==
    SubSeq(s, off + 7, off + 10) \o <<"-">> \o SubSeq(s, off + 4, off + 5)
        \o <<"-">> \o SubSeq(s, off + 1, off + 2)

parseDate(dateStr, now) ==
    IF match(dateStr, FormatISO) >= 0
    THEN LET off == match(dateStr, FormatISO) IN SubSeq(dateStr, off + 1, off + 10)
    ELSE IF match(dateStr, FormatSlash) >= 0
    THEN DayFirstToISO(dateStr, match(dateStr, FormatSlash))
    ELSE IF match(dateStr, FormatDash) >= 0
    THEN DayFirstToISO(dateStr, match(dateStr, FormatDash))
    ELSE now

\* headers.findIndex(h => some pattern of pats occurs in h), counted from 1;
\* 0 stands for the -1 of the code
findIndex(headers, pats) ==
    LET hit(i) == \E p \in pats : includes(headers[i], p)
    IN  IF \E i \in 1..Len(headers) : hit(i)
        THEN CHOOSE i \in 1..Len(headers) : hit(i) /\ \A j \in 1..(i - 1) : ~hit(j)
        ELSE 0

DatePatterns == {<<"d", "a", "t", "e">>}

DescPatterns == {<<"d", "e", "s", "c", "r", "i", "p", "t", "i", "o", "n">>, <<"n", "a", "r", "r", "a", "t", "i", "o", "n">>, <<"d", "e", "t", "a", "i", "l", "s">>}

AmountPatterns == {<<"a", "m", "o", "u", "n", "t">>, <<"d", "e", "b", "i", "t">>, <<"w", "i", "t", "h", "d", "r", "a", "w", "a", "l">>}

\* dateIndex === -1 || descIndex === -1 || amountIndex === -1, without the ||
missingColumnOnlyIfAll(dateIndex, descIndex, amountIndex) ==
    dateIndex = 0 /\ descIndex = 0 /\ amountIndex = 0

\* dateIndex === -1 || descIndex === -1 || amountIndex === -1
missingColumn(dateIndex, descIndex, amountIndex) ==
    dateIndex = 0 \/ descIndex = 0 \/ amountIndex = 0

\* the characters /[...,]/g removes from the amount field, as the source
\* file spells the class: U+00E2, U+201A, U+00B9 and the comma
AmountStripped == {"ACIRC", "LOWQUOTE", "SUPONE", ","}

\* amountStr.replace(/[...]/g, '')
stripAmount(v) == SelectSeq(v, LAMBDA c : c \notin AmountStripped)

\* line.split(',').map(v => v.trim())
splitFields(line) ==
    LET raw == split(line, ",") IN [i \in 1..Len(raw) |-> trim(raw[i])]

\* the body of the row loop for lines[i], i >= 1: the transactions after it,
\* or a TypeError when values[amountIndex] is undefined
RECURSIVE parseRows(_, _, _, _, _, _, _)
parseRows(lines, i, dateIndex, descIndex, amountIndex, now, transactions) ==
    IF i > Len(lines) THEN [status |-> "ok", transactions |-> transactions]
    ELSE LET line == trim(lines[i])
             values == splitFields(line)
             hasDate == dateIndex \in 1..Len(values) /\ values[dateIndex] # <<>>
             hasDesc == descIndex \in 1..Len(values) /\ values[descIndex] # <<>>
             amount == parseFloat(stripAmount(values[amountIndex]))
         IN  IF line = <<>>
             THEN parseRows(lines, i + 1, dateIndex, descIndex, amountIndex, now, transactions)
             ELSE IF amountIndex \notin 1..Len(values)
             THEN [status |-> TypeError, transactions |-> <<>>]
             ELSE IF hasDate /\ hasDesc /\ ~isNaN(amount) /\ Positive(amount)
             THEN parseRows(lines, i + 1, dateIndex, descIndex, amountIndex, now,
                            Append(transactions,
                                   [date |-> parseDate(values[dateIndex], now),
                                    description |-> values[descIndex],
                                    amount |-> amount]))
             ELSE parseRows(lines, i + 1, dateIndex, descIndex, amountIndex, now, transactions)

parseCSV(content, now) ==
    LET lines == split(trim(content), "LF")
        rawHeaders == split(toLowerCase(lines[1]), ",")
        headers == [i \in 1..Len(rawHeaders) |-> trim(rawHeaders[i])]
        dateIndex == findIndex(headers, DatePatterns)
        descIndex == findIndex(headers, DescPatterns)
        amountIndex == findIndex(headers, AmountPatterns)
    IN  IF Len(lines) = 0 THEN [status |-> "ok", transactions |-> <<>>]
        ELSE IF missingColumn(dateIndex, descIndex, amountIndex)
        THEN [status |-> "MissingColumnError", transactions |-> <<>>]
        ELSE parseRows(lines, 2, dateIndex, descIndex, amountIndex, now, <<>>)

(***************************************************************************)
(* Inputs of the classifier.                                               *)
(***************************************************************************)
MaxDescLen == 2
MaxCategories == 2

ClsChars == {"a", "b", "A"}

\* all strings over cs of length at most n
StringsUpTo(cs, n) == UNION {[1..k -> cs] : k \in 0..n}

ClsKeywordLists == {<<>>, <<<<"a", "b">>>>, <<<<"B">>, <<"a", "a">>>>, <<<<>>>>}

ClsCategory ==
    [id : {"", "cat-1", "cat-6"}, name : {"Food", "Others"}, keywords : ClsKeywordLists]

ClsCategoryLists == UNION {[1..k -> ClsCategory] : k \in 0..MaxCategories}

InitClassifier ==
    /\ mode = "classifier"
    /\ pc = "input"
    /\ description \in StringsUpTo(ClsChars, MaxDescLen)
    /\ categories \in ClsCategoryLists
    /\ categoryId = "none"
    /\ CsvIdle
    /\ DateIdle
    /\ AdvIdle
    /\ AppIdle
    /\ EngIdle

Categorize ==
    /\ mode = "classifier"
    /\ pc = "input"
    /\ categoryId' = categorizeExpense(description, categories)
    /\ pc' = "done"
    /\ UNCHANGED <<mode, description, categories, csvVars, dateVars, advVars, appVars, engVars>>

NextClassifier == Categorize

SpecClassifier == InitClassifier /\ [][NextClassifier]_vars

(***************************************************************************)
(* Claims about the classifier.                                            *)
(***************************************************************************)

\* t occurs in s when letter case is ignored
ContainsIgnoringCase(s, t) ==
    \E off \in 0..(Len(s) - Len(t)) :
        \A p \in 1..Len(t) : LowerChar(s[off + p]) = LowerChar(t[p])

\* the positions of the non-"Others" categories one of whose keywords occurs
\* in the description
MatchingCategories ==
    {i \in 1..Len(categories) :
        /\ categories[i].name # "Others"
        /\ \E k \in 1..Len(categories[i].keywords) :
              ContainsIgnoringCase(description, categories[i].keywords[k])}

\* C1: when the description contains keywords of two or more different
\* non-"Others" categories, categorizeExpense returns the id of the one that
\* comes first in the category list.
C1_FirstMatchOrdering ==
    (pc = "done" /\ Cardinality(MatchingCategories) >= 2)
        => \E i \in MatchingCategories :
              /\ \A j \in MatchingCategories : i <= j
              /\ categoryId = categories[i].id

\* two categories with different ids match, and the call returned
C1_Witness ==
    /\ mode = "classifier"
    /\ pc = "done"
    /\ \E i, j \in MatchingCategories :
          i < j /\ categories[i].id # categories[j].id /\ categoryId = categories[i].id

\* C2: for a non-empty category list and a description that contains no
\* keyword of a non-"Others" category, categorizeExpense returns the id of the
\* category named "Others" when there is one, else the id of the last category.
C2_Fallback ==
    (pc = "done" /\ Len(categories) > 0 /\ MatchingCategories = {})
        => IF \E i \in 1..Len(categories) : categories[i].name = "Others"
           THEN \E i \in 1..Len(categories) :
                   /\ categories[i].name = "Others"
                   /\ \A j \in 1..(i - 1) : categories[j].name # "Others"
                   /\ categoryId = categories[i].id
           ELSE categoryId = categories[Len(categories)].id

\* C20: on an empty category list categorizeExpense raises an error, whatever
\* the description is, and returns no category id.
C20_EmptyListFailsFast ==
    (mode = "classifier" /\ pc = "done" /\ categories = <<>>) => categoryId = TypeError

\* a call with a description and no categories has raised the error
C20_Witness ==
    /\ mode = "classifier"
    /\ pc = "done"
    /\ categories = <<>>
    /\ description # <<>>
    /\ categoryId = TypeError

(***************************************************************************)
(* Inputs of the ingestor: a header line followed by data rows, or a blank *)
(* file.                                                                   *)
(***************************************************************************)
MaxRows == 2

CsvHeaders ==
    {<<"D", "a", "t", "e", ",", "D", "e", "s", "c", "r", "i", "p", "t", "i", "o", "n", ",", "A", "m", "o", "u", "n", "t">>,
     <<"d", "a", "t", "e", ",", " ", "n", "a", "r", "r", "a", "t", "i", "o", "n", " ", ",", "d", "e", "b", "i", "t">>,
     <<"T", "x", "n", " ", "D", "a", "t", "e", ",", "D", "e", "t", "a", "i", "l", "s", ",", "R", "e", "f", ",", "W", "i", "t", "h", "d", "r", "a", "w", "a", "l">>,
     <<"A", "m", "o", "u", "n", "t", ",", "D", "a", "t", "e", ",", "D", "e", "s", "c", "r", "i", "p", "t", "i", "o", "n">>,
     <<"D", "a", "t", "e", ",", "D", "e", "s", "c", "r", "i", "p", "t", "i", "o", "n">>,
     <<"N", "a", "r", "r", "a", "t", "i", "o", "n", ",", "A", "m", "o", "u", "n", "t">>,
     <<"D", "a", "t", "e", ",", "D", "e", "b", "i", "t">>}

CsvRows ==
    {<<"2", "0", "2", "4", "-", "0", "1", "-", "1", "5", ",", "S", "w", "i", "g", "g", "y", " ", "O", "r", "d", "e", "r", ",", "4", "5", "0">>,
     <<"1", "5", "/", "0", "1", "/", "2", "0", "2", "4", ",", "U", "b", "e", "r", ",", "RUPEE", "1", ",", "2", "0", "0">>,
     <<"1", "5", "-", "0", "1", "-", "2", "0", "2", "4", ",", "R", "e", "n", "t", ",", "1", ",", "2", "0", "0">>,
     <<"2", "0", "2", "4", "-", "0", "1", "-", "1", "6", ",", "S", "w", "i", "g", "g", "y">>,
     <<>>,
     <<",", "N", "e", "t", "f", "l", "i", "x", ",", "1", "9", "9">>,
     <<"2", "0", "2", "4", "-", "0", "1", "-", "1", "7", ",", ",", "1", "0", "0">>,
     <<"2", "0", "2", "4", "-", "0", "1", "-", "1", "8", ",", "R", "e", "f", "u", "n", "d", ",", "-", "5", "0">>,
     <<"2", "0", "2", "4", "-", "0", "1", "-", "1", "9", ",", "F", "e", "e", ",", "0">>,
     <<"2", "0", "2", "4", "-", "0", "1", "-", "2", "0", ",", "C", "a", "f", "e", ",", "a", "b", "c">>,
     <<"2", "0", "2", "4", "-", "0", "1", "-", "2", "0", ",", "T", "e", "a", ",", "1", "2", "a", "b", "c">>,
     <<"2", "0", "2", "4", "-", "0", "1", "-", "2", "1", ",", "G", "y", "m", ",", "RUPEE", "4", "5", "0">>,
     <<"J", "a", "n", " ", "5", ",", "T", "e", "a", ",", "1", "2", ".", "5", "0", "CR">>}

CsvBlank == {<<>>, <<" ">>, <<"LF">>}

\* lines.join('\n')
RECURSIVE JoinLines(_)
JoinLines(ls) ==
    IF Len(ls) = 0 THEN <<>>
    ELSE IF Len(ls) = 1 THEN ls[1]
    ELSE ls[1] \o <<"LF">> \o JoinLines(Tail(ls))

CsvRowLists == UNION {[1..k -> CsvRows] : k \in 0..MaxRows}

CsvInputs == CsvBlank \cup {JoinLines(<<h>> \o rs) : h \in CsvHeaders, rs \in CsvRowLists}

Todays == {<<"2", "0", "2", "6", "-", "1", "1", "-", "0", "6">>}

InitCsv ==
    /\ mode = "csv"
    /\ pc = "input"
    /\ csvContent \in CsvInputs
    /\ today \in Todays
    /\ parsed = [status |-> "none", transactions |-> <<>>]
    /\ ClsIdle
    /\ DateIdle
    /\ AdvIdle
    /\ AppIdle
    /\ EngIdle

ParseCsv ==
    /\ mode = "csv"
    /\ pc = "input"
    /\ parsed' = parseCSV(csvContent, today)
    /\ pc' = "done"
    /\ UNCHANGED <<mode, csvContent, today, clsVars, dateVars, advVars, appVars, engVars>>

NextCsv == ParseCsv

SpecCsv == InitCsv /\ [][NextCsv]_vars

(***************************************************************************)
(* Claims about the ingestor.                                              *)
(***************************************************************************)

\* the lines of the file, the header line first
CsvLines == split(trim(csvContent), "LF")

HeaderFields == split(CsvLines[1], ",")

\* some header names the role, letter case ignored
HeaderHasRole(pats) ==
    \E i \in 1..Len(HeaderFields) : \E p \in pats : ContainsIgnoringCase(HeaderFields[i], p)

HeaderComplete ==
    HeaderHasRole(DatePatterns) /\ HeaderHasRole(DescPatterns) /\ HeaderHasRole(AmountPatterns)

\* the column of a role: the first header, left to right, that names it
RoleColumn(pats) ==
    CHOOSE i \in 1..Len(HeaderFields) :
        /\ \E p \in pats : ContainsIgnoringCase(HeaderFields[i], p)
        /\ \A j \in 1..(i - 1) : \A p \in pats : ~ContainsIgnoringCase(HeaderFields[j], p)

\* the field of a data line in a column, blank when the line has no such field
FieldOf(line, col) ==
    LET fs == split(line, ",") IN IF col <= Len(fs) THEN trim(fs[col]) ELSE <<>>

\* a decimal numeral (digits with an optional fraction) above zero
IsPositiveNumeral(t) ==
    /\ t # <<>>
    /\ \A i \in 1..Len(t) : IsDigit(t[i]) \/ t[i] = "."
    /\ Cardinality({i \in 1..Len(t) : t[i] = "."}) <= 1
    /\ \E i \in 1..Len(t) : IsDigit(t[i]) /\ t[i] # "0"

\* the value of a positive numeral
NumeralValue(t) ==
    LET dots == {i \in 1..Len(t) : t[i] = "."}
        frac == IF dots = {} THEN 0 ELSE Len(t) - (CHOOSE i \in dots : TRUE)
    IN  Decimal(DigitsValue(SelectSeq(t, IsDigit)), frac)

\* the data rows that are to give a transaction, in file order
GoodRows ==
    SelectSeq(Tail(CsvLines),
              LAMBDA line :
                  /\ FieldOf(line, RoleColumn(DatePatterns)) # <<>>
                  /\ FieldOf(line, RoleColumn(DescPatterns)) # <<>>
                  /\ IsPositiveNumeral(FieldOf(line, RoleColumn(AmountPatterns))))

\* C3: parseCSV of an empty or white-space-only text returns the empty
\* sequence and does not fail.
C3_EmptyInputEmptyResult ==
    (mode = "csv" /\ pc = "done" /\ trim(csvContent) = <<>>)
        => parsed = [status |-> "ok", transactions |-> <<>>]

\* C4: when the header names the three columns, parseCSV returns a sequence
\* whatever the data rows hold; rows with too few fields are only skipped.
C4_NoRowFailsTheParse ==
    (mode = "csv" /\ pc = "done" /\ HeaderComplete) => parsed.status = "ok"

\* C5: when the header lacks the date, the description or the amount column,
\* parseCSV fails with the missing-column error and gives no transaction.
C5_MissingColumnError ==
    (mode = "csv" /\ pc = "done" /\ ~HeaderComplete)
        => parsed = [status |-> "MissingColumnError", transactions |-> <<>>]

\* a header without one of the columns over a well-formed data row, refused
C5_Witness ==
    /\ mode = "csv"
    /\ pc = "done"
    /\ ~HeaderComplete
    /\ HeaderHasRole(DatePatterns)
    /\ Len(CsvLines) >= 2
    /\ LET fs == split(CsvLines[2], ",")
       IN  Len(fs) = 3 /\ fs[1] # <<>> /\ fs[2] # <<>> /\ IsPositiveNumeral(fs[3])
    /\ parsed.status = "MissingColumnError"

\* C6: the output is, in file order, one transaction for each data row whose
\* date and description fields are not blank and whose amount field is a
\* positive number, and nothing for any other row.
C6_ExactlyTheGoodRows ==
    (mode = "csv" /\ pc = "done" /\ HeaderComplete)
        => /\ parsed.status = "ok"
           /\ Len(parsed.transactions) = Len(GoodRows)
           /\ \A i \in 1..Len(GoodRows) :
                 /\ i <= Len(parsed.transactions)
                 /\ parsed.transactions[i].description
                        = FieldOf(GoodRows[i], RoleColumn(DescPatterns))
                 /\ parsed.transactions[i].amount
                        = NumeralValue(FieldOf(GoodRows[i], RoleColumn(AmountPatterns)))

\* an amount written with the currency symbol and/or thousands separators
IsCurrencyAmount(t) ==
    /\ \A i \in 1..Len(t) : IsDigit(t[i]) \/ t[i] \in {"RUPEE", ","}
    /\ \E i \in 1..Len(t) : t[i] \in {"RUPEE", ","}
    /\ t # <<>> /\ IsDigit(t[Len(t)])

\* the text of a line after its second comma
AfterSecondComma(line) ==
    LET commas == {i \in 1..Len(line) : line[i] = ","}
        c2 == CHOOSE i \in commas : Cardinality({j \in commas : j < i}) = 1
    IN  SubSeq(line, c2 + 1, Len(line))

\* C7: under the header Date,Description,Amount a row whose amount is written
\* with a currency symbol and/or thousands separators (RUPEE 1,200) gives one
\* transaction with the number meant (1200), the date and the description
\* being those of their own columns.
C7_CurrencyAndSeparatorsStripped ==
    (/\ mode = "csv" /\ pc = "done"
     /\ Len(CsvLines) = 2
     /\ CsvLines[1] = <<"D", "a", "t", "e", ",", "D", "e", "s", "c", "r", "i", "p", "t", "i", "o", "n", ",", "A", "m", "o", "u", "n", "t">>
     /\ Cardinality({i \in 1..Len(CsvLines[2]) : CsvLines[2][i] = ","}) >= 2
     /\ IsCurrencyAmount(AfterSecondComma(CsvLines[2])))
        => /\ parsed.status = "ok"
           /\ Len(parsed.transactions) = 1
           /\ parsed.transactions[1].date = parseDate(FieldOf(CsvLines[2], 1), today)
           /\ parsed.transactions[1].description = FieldOf(CsvLines[2], 2)
           /\ parsed.transactions[1].amount
                 = Decimal(DigitsValue(SelectSeq(AfterSecondComma(CsvLines[2]), IsDigit)), 0)

(***************************************************************************)
(* Inputs of parseDate: the date fields that spell a calendar date in one  *)
(* of the three accepted formats.                                          *)
(***************************************************************************)
Years == {1999, 2024}

IsLeap(y) == (y % 4 = 0 /\ y % 100 # 0) \/ y % 400 = 0

DaysIn(y, m) ==
    IF m = 2 THEN (IF IsLeap(y) THEN 29 ELSE 28)
    ELSE IF m \in {4, 6, 9, 11} THEN 30 ELSE 31

CalendarDates ==
    {d \in [year : Years, month : 1..12, day : 1..31] : d.day <= DaysIn(d.year, d.month)}

DateFormats == {"YYYY-MM-DD", "DD/MM/YYYY", "DD-MM-YYYY"}

\* n written with k digits, zero-padded
RECURSIVE Padded(_, _)
Padded(n, k) == IF k = 0 THEN <<>> ELSE Padded(n \div 10, k - 1) \o <<Digits[(n % 10) + 1]>>

\* the date d written in format f
Spell(d, f) ==
    IF f = "YYYY-MM-DD"
    THEN Padded(d.year, 4) \o <<"-">> \o Padded(d.month, 2) \o <<"-">> \o Padded(d.day, 2)
    ELSE IF f = "DD/MM/YYYY"
    THEN Padded(d.day, 2) \o <<"/">> \o Padded(d.month, 2) \o <<"/">> \o Padded(d.year, 4)
    ELSE Padded(d.day, 2) \o <<"-">> \o Padded(d.month, 2) \o <<"-">> \o Padded(d.year, 4)

InitDate ==
    /\ mode = "date"
    /\ pc = "input"
    /\ calDate \in CalendarDates
    /\ dateFormat \in DateFormats
    /\ dateInput = Spell(calDate, dateFormat)
    /\ isoDate = <<>>
    /\ today \in Todays
    /\ csvContent = <<>>
    /\ parsed = [status |-> "none", transactions |-> <<>>]
    /\ ClsIdle
    /\ AdvIdle
    /\ AppIdle
    /\ EngIdle

ParseDate ==
    /\ mode = "date"
    /\ pc = "input"
    /\ isoDate' = parseDate(dateInput, today)
    /\ pc' = "done"
    /\ UNCHANGED <<mode, calDate, dateFormat, dateInput, clsVars, csvVars, advVars, appVars, engVars>>

NextDate == ParseDate

SpecDate == InitDate /\ [][NextDate]_vars

\* C8: the three accepted spellings of a calendar date, DD/MM/YYYY, DD-MM-YYYY
\* and YYYY-MM-DD, all normalize to the one ISO string YYYY-MM-DD of that
\* date.
C8_DateFormatEquivalence ==
    (mode = "date" /\ pc = "done") => isoDate = Spell(calDate, "YYYY-MM-DD")

\* 15/01/2024 has been normalized to 2024-01-15
C8_Witness ==
    /\ mode = "date"
    /\ pc = "done"
    /\ dateInput = <<"1", "5", "/", "0", "1", "/", "2", "0", "2", "4">>
    /\ isoDate = <<"2", "0", "2", "4", "-", "0", "1", "-", "1", "5">>

(***************************************************************************)
(* Arithmetic on the exact numbers.                                        *)
(***************************************************************************)
Int2Num(k) == Number(k, 1)

Plus(a, b) == Number(a.n * b.d + b.n * a.d, a.d * b.d)

Minus(a, b) == Number(a.n * b.d - b.n * a.d, a.d * b.d)

Times(a, b) == Number(a.n * b.n, a.d * b.d)

\* a / b: NaN for 0 / 0, an infinity for x / 0
Divide(a, b) ==
    IF b.n # 0 THEN Number(a.n * b.d, a.d * b.n)
    ELSE IF a.n = 0 THEN NaN
    ELSE [Infinity EXCEPT !.n = IF a.n < 0 THEN -1 ELSE 1]

\* a > b (false when either is NaN)
Greater(a, b) ==
    IF a.kind = "NaN" \/ b.kind = "NaN" THEN FALSE
    ELSE IF a.kind = "Infinity" THEN a.n > 0 /\ ~(b.kind = "Infinity" /\ b.n > 0)
    ELSE IF b.kind = "Infinity" THEN b.n < 0
    ELSE a.n * b.d > b.n * a.d

\* a * k for a number a that may be an infinity or NaN
Scale(a, k) == IF a.kind = "number" THEN Times(a, k) ELSE a

\* the second argument, without the cap
MinUncapped(a, b) == b

\* Math.min
Min(a, b) == IF Greater(a, b) THEN b ELSE a

\* Number.prototype.toFixed(0): the nearest integer, halves away from zero
toFixed0(a) ==
    IF a.kind # "number" THEN a
    ELSE IF a.n >= 0 THEN Int2Num((2 * a.n + a.d) \div (2 * a.d))
    ELSE Int2Num(0 - ((2 * (0 - a.n) + a.d) \div (2 * a.d)))

\* String.prototype.startsWith
startsWith(s, prefix) == Len(s) >= Len(prefix) /\ SubSeq(s, 1, Len(prefix)) = prefix

(***************************************************************************)
(* utils/aiCoach.ts: generateAdvice                                        *)
(***************************************************************************)
NoGoal == [present |-> FALSE, monthlyTarget |-> 0, active |-> FALSE]

\* new Date().toISOString().slice(0, 7)
currentMonth(now) == SubSeq(now, 1, 7)

\* expenses.filter(e => e.transactionDate.startsWith(currentMonth))
monthExpenses(exps, now) ==
    SelectSeq(exps, LAMBDA e : startsWith(e.transactionDate, currentMonth(now)))

\* the totals of the month with the expenses of the seeded "Others" category
\* left out
RECURSIVE categoryTotalsWithoutOthers(_)
categoryTotalsWithoutOthers(exps) ==
    IF exps = <<>> THEN <<>>
    ELSE LET before == categoryTotalsWithoutOthers(SubSeq(exps, 1, Len(exps) - 1))
             exp == exps[Len(exps)]
         IN  IF exp.categoryId = "cat-6" THEN before
             ELSE IF \E i \in 1..Len(before) : before[i].categoryId = exp.categoryId
             THEN [i \in 1..Len(before) |->
                      IF before[i].categoryId = exp.categoryId
                      THEN [before[i] EXCEPT !.amount = Plus(@, exp.amount)]
                      ELSE before[i]]
             ELSE Append(before, [categoryId |-> exp.categoryId,
                                  amount |-> Plus(Int2Num(0), exp.amount)])

\* the Map categoryTotals, as the sequence of its entries in insertion order
RECURSIVE categoryTotals(_)
categoryTotals(exps) ==
    IF exps = <<>> THEN <<>>
    ELSE LET before == categoryTotals(SubSeq(exps, 1, Len(exps) - 1))
             exp == exps[Len(exps)]
         IN  IF \E i \in 1..Len(before) : before[i].categoryId = exp.categoryId
             THEN [i \in 1..Len(before) |->
                      IF before[i].categoryId = exp.categoryId
                      THEN [before[i] EXCEPT !.amount = Plus(@, exp.amount)]
                      ELSE before[i]]
             ELSE Append(before, [categoryId |-> exp.categoryId,
                                  amount |-> Plus(Int2Num(0), exp.amount)])

\* Array.from(categoryTotals.values()).reduce((sum, val) => sum + val, 0)
RECURSIVE sumAmounts(_)
sumAmounts(entries) ==
    IF entries = <<>> THEN Int2Num(0)
    ELSE Plus(sumAmounts(SubSeq(entries, 1, Len(entries) - 1)), entries[Len(entries)].amount)

\* categories.find(c => c.id === categoryId): its index, 0 for undefined
findCategory(cats, id) ==
    IF \E i \in 1..Len(cats) : cats[i].id = id
    THEN CHOOSE i \in 1..Len(cats) : cats[i].id = id /\ \A j \in 1..(i - 1) : cats[j].id # id
    ELSE 0

\* the food rule with >= in place of >
foodRuleFiresAtThreshold(name, percentage) ==
    name = "Food" /\ ~Greater(Int2Num(30), percentage)

\* category.name === 'Food' && percentage > 30
foodRuleFires(name, percentage) == name = "Food" /\ Greater(percentage, Int2Num(30))

\* the advice items one entry of categoryTotals gives
categoryAdvice(entry, cats, totalSpent, ms) ==
    LET c == findCategory(cats, entry.categoryId)
        amount == entry.amount
        percentage == Scale(Divide(amount, totalSpent), Int2Num(100))
        food == IF foodRuleFires(cats[c].name, percentage)
                THEN <<[id |-> <<"advice-food-", ms>>,
                        title |-> "High Food Spending Detected",
                        message |-> <<"food", toFixed0(percentage), toFixed0(amount),
                                      toFixed0(Times(amount, Number(3, 10)))>>,
                        potentialSavings |-> Times(amount, Number(3, 10)),
                        category |-> "Food"]>>
                ELSE <<>>
        subs == IF cats[c].name = "Subscriptions" /\ Greater(amount, Int2Num(1500))
                THEN <<[id |-> <<"advice-subs-", ms>>,
                        title |-> "Subscription Review Needed",
                        message |-> <<"subs", toFixed0(amount),
                                      toFixed0(Min(Int2Num(600), Times(amount, Number(4, 10))))>>,
                        potentialSavings |-> Min(Int2Num(600), Times(amount, Number(4, 10))),
                        category |-> "Subscriptions"]>>
                ELSE <<>>
        shop == IF cats[c].name = "Shopping" /\ Greater(percentage, Int2Num(25))
                THEN <<[id |-> <<"advice-shop-", ms>>,
                        title |-> "Shopping Alert",
                        message |-> <<"shop", toFixed0(percentage),
                                      toFixed0(Times(amount, Number(25, 100)))>>,
                        potentialSavings |-> Times(amount, Number(25, 100)),
                        category |-> "Shopping"]>>
                ELSE <<>>
    IN  IF c = 0 \/ cats[c].name = "Others" THEN <<>> ELSE food \o subs \o shop

RECURSIVE adviceOfTotals(_, _, _, _)
adviceOfTotals(entries, cats, totalSpent, ms) ==
    IF entries = <<>> THEN <<>>
    ELSE categoryAdvice(Head(entries), cats, totalSpent, ms)
            \o adviceOfTotals(Tail(entries), cats, totalSpent, ms)

\* the goal rule; the item has no potentialSavings property
goalAdvice(g, totalSpent, ms) ==
    LET remainingSavings == Minus(g.monthlyTarget, totalSpent)
    IN  IF g.present /\ g.active /\ Greater(Int2Num(0), remainingSavings)
        THEN <<[id |-> <<"advice-goal-", ms>>,
                title |-> "Savings Goal at Risk",
                message |-> <<"goal", toFixed0(Minus(Int2Num(0), remainingSavings))>>,
                category |-> "Goal"]>>
        ELSE <<>>

generateAdvice(exps, cats, g, now, ms) ==
    LET month == monthExpenses(exps, now)
        totals == categoryTotals(month)
        totalSpent == sumAmounts(totals)
    IN  IF Len(month) = 0 THEN <<>>
        ELSE adviceOfTotals(totals, cats, totalSpent, ms) \o goalAdvice(g, totalSpent, ms)

(***************************************************************************)
(* Inputs of generateAdvice.                                               *)
(***************************************************************************)
MaxExpenses == 2

AdvToday == <<"2", "0", "2", "6", "-", "1", "1", "-", "0", "6">>

AdvDates == {<<"2", "0", "2", "6", "-", "1", "1", "-", "0", "3">>, <<"2", "0", "2", "6", "-", "1", "0", "-", "3", "0">>}

\* stored amounts; the manual form also stores negative ones
AdvAmounts == {Int2Num(300), Int2Num(700), Int2Num(1600), Int2Num(0 - 300)}

AdvCategoryIds == {"cat-1", "cat-3", "cat-5", "cat-6"}

AdvExpense == [categoryId : AdvCategoryIds, amount : AdvAmounts, transactionDate : AdvDates]

AdvExpenseLists == UNION {[1..k -> AdvExpense] : k \in 0..MaxExpenses}

AdvGoals ==
    {NoGoal} \cup [present : {TRUE}, monthlyTarget : {Int2Num(1000), Int2Num(0 - 500)},
                    active : BOOLEAN]

\* the seeded list, and a shorter list in another order without Subscriptions
AdvCategoryLists ==
    {DEFAULT_CATEGORIES,
     <<DEFAULT_CATEGORIES[6], DEFAULT_CATEGORIES[3], DEFAULT_CATEGORIES[1]>>}

InitAdvice ==
    /\ mode = "advice"
    /\ pc = "input"
    /\ expenses \in AdvExpenseLists
    /\ categories \in AdvCategoryLists
    /\ goal \in AdvGoals
    /\ today = AdvToday
    /\ clock = 1
    /\ advice = <<>>
    /\ description = <<>>
    /\ categoryId = "none"
    /\ csvContent = <<>>
    /\ parsed = [status |-> "none", transactions |-> <<>>]
    /\ DateIdle
    /\ AppIdle
    /\ EngIdle

GenerateAdvice ==
    /\ mode = "advice"
    /\ pc = "input"
    /\ advice' = generateAdvice(expenses, categories, goal, today, clock)
    /\ pc' = "done"
    /\ UNCHANGED <<mode, expenses, categories, goal, today, clock, description, categoryId,
                   csvContent, parsed, dateVars, appVars, engVars>>

NextAdvice == GenerateAdvice

SpecAdvice == InitAdvice /\ [][NextAdvice]_vars

(***************************************************************************)
(* Claims about generateAdvice.                                            *)
(***************************************************************************)

\* the sum of the amounts of a sequence of expenses
RECURSIVE Total(_)
Total(es) == IF es = <<>> THEN Int2Num(0) ELSE Plus(Head(es).amount, Total(Tail(es)))

\* the expenses dated in the month of today
ThisMonth == SelectSeq(expenses, LAMBDA e : SubSeq(e.transactionDate, 1, 7) = SubSeq(today, 1, 7))

\* the current-month expenses of the categories with a given name
MonthOf(name) ==
    SelectSeq(ThisMonth,
              LAMBDA e : \E i \in 1..Len(categories) :
                            categories[i].id = e.categoryId /\ categories[i].name = name)

\* the positions of the advice items of a category
ItemsOf(cat) == {i \in 1..Len(advice) : advice[i].category = cat}

\* the share of the month's total spend that went to Food, in percent
FoodShare == Scale(Divide(Total(MonthOf("Food")), Total(ThisMonth)), Int2Num(100))

\* C10: generateAdvice emits the high-food-spend item exactly when the Food
\* total of the current month is a share strictly above 30% of the month's
\* total spend (not at exactly 30%), it emits it once, and its potential
\* savings are 30% of the Food total.
C10_FoodThreshold ==
    (mode = "advice" /\ pc = "done")
        => /\ (ItemsOf("Food") # {}) <=> Greater(FoodShare, Int2Num(30))
           /\ Cardinality(ItemsOf("Food")) <= 1
           /\ \A i \in ItemsOf("Food") :
                 Times(advice[i].potentialSavings, Int2Num(10))
                     = Times(Total(MonthOf("Food")), Int2Num(3))

\* Food is exactly 30% of the month's spend and the call gave no food item
C10_Witness ==
    /\ mode = "advice"
    /\ pc = "done"
    /\ Total(MonthOf("Food")) = Int2Num(300)
    /\ Total(ThisMonth) = Int2Num(1000)
    /\ ItemsOf("Food") = {}

\* a goal is supplied, it is active and the month's spend is above its target
GoalExceeded ==
    goal.present /\ goal.active /\ Greater(Total(ThisMonth), goal.monthlyTarget)

\* the share of the month's total spend that went to Shopping, in percent
ShoppingShare ==
    Scale(Divide(Total(MonthOf("Shopping")), Total(ThisMonth)), Int2Num(100))

\* the category names of the list are pairwise different
UniqueNames ==
    \A i, j \in 1..Len(categories) : categories[i].name = categories[j].name => i = j

\* C11: the advice rules are independent: with unique category names the
\* output of generateAdvice holds the item of a rule (Food share above 30%,
\* Subscriptions total above 1500, Shopping share above 25%, active goal
\* exceeded) exactly when that rule's own condition holds, whatever the other
\* rules do.
C11_RulesIndependent ==
    (mode = "advice" /\ pc = "done" /\ UniqueNames)
        => /\ (ItemsOf("Food") # {}) <=> Greater(FoodShare, Int2Num(30))
           /\ (ItemsOf("Subscriptions") # {})
                 <=> Greater(Total(MonthOf("Subscriptions")), Int2Num(1500))
           /\ (ItemsOf("Shopping") # {}) <=> Greater(ShoppingShare, Int2Num(25))
           /\ (ItemsOf("Goal") # {}) <=> GoalExceeded

\* C13: generateAdvice emits the goal-at-risk item exactly when a goal is
\* supplied, it is active and the current month's total spend is strictly
\* above its monthly target (not for an absent or inactive goal, not at
\* equality), and the item has no potential-savings figure.
C13_GoalAtRisk ==
    (mode = "advice" /\ pc = "done")
        => /\ (ItemsOf("Goal") # {}) <=> GoalExceeded
           /\ \A i \in ItemsOf("Goal") : "potentialSavings" \notin DOMAIN advice[i]

\* C26: whenever generateAdvice emits the subscription-review item, its
\* potentialSavings is exactly 600: the rule fires only above a total of
\* 1500, where 40% of the total is above 600.
C26_SubscriptionSavingsIs600 ==
    (mode = "advice" /\ pc = "done")
        => \A k \in 1..Len(advice) :
              advice[k].category = "Subscriptions" => advice[k].potentialSavings = Int2Num(600)

\* the subscription-review item was emitted for a total of 1600 or more
C26_Witness ==
    /\ mode = "advice"
    /\ pc = "done"
    /\ \E k \in 1..Len(advice) : advice[k].title = "Subscription Review Needed"
    /\ Greater(Total(MonthOf("Subscriptions")), Int2Num(1500))

(***************************************************************************)
(* generateAdvice on the categories [Food, Others].                        *)
(***************************************************************************)
MaxScenarioExpenses == 3

ScenarioCategories == <<DEFAULT_CATEGORIES[1], DEFAULT_CATEGORIES[6]>>

ScenarioExpense ==
    {[categoryId |-> "cat-1", amount |-> Int2Num(1000), transactionDate |-> <<"2", "0", "2", "6", "-", "1", "1", "-", "0", "3">>],
     [categoryId |-> "cat-1", amount |-> Int2Num(500), transactionDate |-> <<"2", "0", "2", "6", "-", "1", "1", "-", "0", "3">>],
     [categoryId |-> "cat-6", amount |-> Int2Num(500), transactionDate |-> <<"2", "0", "2", "6", "-", "1", "1", "-", "0", "3">>],
     [categoryId |-> "cat-6", amount |-> Int2Num(250), transactionDate |-> <<"2", "0", "2", "6", "-", "1", "1", "-", "0", "3">>],
     [categoryId |-> "cat-1", amount |-> Int2Num(1000), transactionDate |-> <<"2", "0", "2", "6", "-", "1", "0", "-", "3", "0">>],
     [categoryId |-> "cat-6", amount |-> Int2Num(500), transactionDate |-> <<"2", "0", "2", "6", "-", "1", "0", "-", "3", "0">>]}

ScenarioExpenseLists == UNION {[1..k -> ScenarioExpense] : k \in 0..MaxScenarioExpenses}

ScenarioGoals ==
    {NoGoal, [present |-> TRUE, monthlyTarget |-> Int2Num(1000), active |-> FALSE]}

InitScenario ==
    /\ mode = "advice"
    /\ pc = "input"
    /\ expenses \in ScenarioExpenseLists
    /\ categories = ScenarioCategories
    /\ goal \in ScenarioGoals
    /\ today = AdvToday
    /\ clock = 1
    /\ advice = <<>>
    /\ description = <<>>
    /\ categoryId = "none"
    /\ csvContent = <<>>
    /\ parsed = [status |-> "none", transactions |-> <<>>]
    /\ DateIdle
    /\ AppIdle
    /\ EngIdle

SpecScenario == InitScenario /\ [][NextAdvice]_vars

\* C12: with the categories [Food, Others], no active goal and current-month
\* expenses of Food 1000 and Others 500, generateAdvice returns exactly one
\* item, the food one, with potential savings 300; its share, 67%, is taken of
\* the month total that includes "Others", and "Others" gives no item.
C12_FoodAndOthersScenario ==
    (/\ mode = "advice" /\ pc = "done"
     /\ categories = ScenarioCategories
     /\ ~(goal.present /\ goal.active)
     /\ Total(MonthOf("Food")) = Int2Num(1000)
     /\ Total(MonthOf("Others")) = Int2Num(500))
        => /\ Len(advice) = 1
           /\ advice[1].category = "Food"
           /\ advice[1].potentialSavings = Int2Num(300)
           /\ advice[1].message[2] = Int2Num(67)

\* the scenario's call has returned its one item, with an expense of another
\* month in the collection as well
C12_Witness ==
    /\ mode = "advice" /\ pc = "done"
    /\ categories = ScenarioCategories
    /\ Total(MonthOf("Food")) = Int2Num(1000)
    /\ Total(MonthOf("Others")) = Int2Num(500)
    /\ Len(expenses) > Len(ThisMonth)
    /\ Len(advice) = 1

(***************************************************************************)
(* The runtime's Date.  Instants are minutes since 1970-01-01T00:00Z; the  *)
(* runtime's time zone has a fixed offset tz (no daylight saving).         *)
(***************************************************************************)
MinutesPerDay == 1440

\* the leap years before year y
LeapsBefore(y) == ((y - 1) \div 4) - ((y - 1) \div 100) + ((y - 1) \div 400)

\* the days from 1970-01-01 to January 1 of year y
DaysBeforeYear(y) == 365 * (y - 1970) + LeapsBefore(y) - LeapsBefore(1970)

\* the days of year y before its month m
RECURSIVE DaysBeforeMonth(_, _)
DaysBeforeMonth(y, m) == IF m = 1 THEN 0 ELSE DaysBeforeMonth(y, m - 1) + DaysIn(y, m - 1)

\* new Date('YYYY-MM-DD').getTime(): midnight UTC of that day
dateTime(iso) ==
    LET y == DigitsValue(SubSeq(iso, 1, 4))
        m == DigitsValue(SubSeq(iso, 6, 7))
        d == DigitsValue(SubSeq(iso, 9, 10))
    IN  (DaysBeforeYear(y) + DaysBeforeMonth(y, m) + d - 1) * MinutesPerDay

\* Date.prototype.getFullYear: the year of the local day of instant t
getFullYear(t, tz) ==
    LET day == (t + tz) \div MinutesPerDay
    IN  CHOOSE y \in (1970 + day \div 366)..(1971 + day \div 365) :
            DaysBeforeYear(y) <= day /\ day < DaysBeforeYear(y + 1)

\* Date.prototype.getDay: the weekday of the local day of instant t, Sunday 0
getDay(t, tz) == (((t + tz) \div MinutesPerDay) + 4) % 7

\* new Date(): the instant of the call
currentTime == dateTime(today) + timeOfDay

\* .reduce((sum, e) => sum + e.amount, 0)
RECURSIVE reduceAmounts(_)
reduceAmounts(es) ==
    IF es = <<>> THEN Int2Num(0)
    ELSE Plus(reduceAmounts(SubSeq(es, 1, Len(es) - 1)), es[Len(es)].amount)

(***************************************************************************)
(* The screens over local storage: App.tsx, contexts/AuthContext.tsx,      *)
(* components/Dashboard.tsx and components/ExpenseManager.tsx.             *)
(***************************************************************************)
MaxClock == 2

UserIds == {"user-1", "user-2"}

Tabs == {"dashboard", "expenses"}

NoUpload == [pending |-> FALSE, userId |-> "null", live |-> FALSE]

\* the list without the filter
allExpensesOf(stored, u) == stored

\* storage.getExpenses().filter(e => e.userId === user?.id)
ownExpenses(stored, u) == SelectSeq(stored, LAMBDA e : e.userId = u)

\* insightsData.sort((a, b) => b.amount - a.amount): stable, larger amounts first
RECURSIVE sortByAmountDesc(_)
sortByAmountDesc(items) ==
    IF items = <<>> THEN <<>>
    ELSE LET sorted == sortByAmountDesc(SubSeq(items, 1, Len(items) - 1))
             x == items[Len(items)]
             k == Cardinality({i \in 1..Len(sorted) : ~Greater(x.amount, sorted[i].amount)})
         IN  SubSeq(sorted, 1, k) \o <<x>> \o SubSeq(sorted, k + 1, Len(sorted))

\* one SpendingInsight for each entry of categoryTotals whose category is found
RECURSIVE insightsOfTotals(_, _, _)
insightsOfTotals(entries, cats, totalSpent) ==
    IF entries = <<>> THEN <<>>
    ELSE LET c == findCategory(cats, Head(entries).categoryId)
             rest == insightsOfTotals(Tail(entries), cats, totalSpent)
         IN  IF c # 0
             THEN <<[category |-> cats[c].name,
                     amount |-> Head(entries).amount,
                     percentage |-> Scale(Divide(Head(entries).amount, totalSpent),
                                          Int2Num(100))]>> \o rest
             ELSE rest

\* Dashboard.loadData: the category totals and percentages of the month
dashboardInsights(allExpenses, allCategories, now) ==
    LET totals == categoryTotals(monthExpenses(allExpenses, now))
        totalSpent == sumAmounts(totals)
    IN  sortByAmountDesc(insightsOfTotals(totals, allCategories, totalSpent))

\* the week start of the loop's pass i: i weeks before now, then back to the
\* Sunday of that local week, at the time of day of now
weekStartOf(now, tz, i) ==
    LET date == now - (i * 7) * MinutesPerDay
    IN  date - getDay(date, tz) * MinutesPerDay

\* the filter of a pass: Math.ceil(Math.abs(expDate - weekStart) / day) < 7
weekExpensesOf(allExpenses, weekStart) ==
    SelectSeq(allExpenses,
              LAMBDA e : LET diff == Abs(dateTime(e.transactionDate) - weekStart)
                             diffDays == (diff + MinutesPerDay - 1) \div MinutesPerDay
                         IN  diffDays < 7)

\* the loop with i running from 0 up to 3
last4WeeksRecentFirst(allExpenses, now, tz) ==
    [k \in 1..4 |->
        LET i == k - 1
        IN  [week |-> <<"Week ", 4 - i>>,
             amount |-> reduceAmounts(weekExpensesOf(allExpenses, weekStartOf(now, tz, i)))]]

\* Dashboard.loadData: last4Weeks, the loop pushing the passes i = 3, 2, 1, 0
last4Weeks(allExpenses, now, tz) ==
    [k \in 1..4 |->
        LET i == 4 - k
        IN  [week |-> <<"Week ", 4 - i>>,
             amount |-> reduceAmounts(weekExpensesOf(allExpenses, weekStartOf(now, tz, i)))]]

\* the effect that runs when the screen of a tab mounts or the user changes:
\* the screen's loadData
loadedExpenses(stored, u) == ownExpenses(stored, u)

loadedInsights(tab, stored, u, cats, now) ==
    IF tab = "dashboard" THEN dashboardInsights(ownExpenses(stored, u), cats, now) ELSE <<>>

loadedWeeklyData(tab, stored, u, now, tz) ==
    IF tab = "dashboard" THEN last4Weeks(ownExpenses(stored, u), now, tz) ELSE <<>>

FormAmounts == {<<"1", "0", "0">>, <<"-", "5", "0">>}

FormDescriptions == {<<"S", "w", "i", "g", "g", "y", " ", "o", "r", "d", "e", "r">>, <<"M", "i", "s", "c">>}

FormDates == {<<"2", "0", "2", "6", "-", "1", "1", "-", "0", "3">>, <<"2", "0", "2", "6", "-", "1", "0", "-", "3", "0">>}

\* what the classify service may answer: one expense whose categoryId is
\* absent (""), an id of the stored list, or an id the list does not hold
UploadItems ==
    [categoryId : {"", "cat-2", "cat-9"}, description : {<<"U", "b", "e", "r">>},
     amount : {Int2Num(40)}, date : {<<"2", "0", "2", "6", "-", "1", "1", "-", "0", "4">>}]

UploadResponses == {<<i>> : i \in UploadItems}

InitApp ==
    /\ mode = "app"
    /\ pc = "mounted"
    /\ user = "null"
    /\ currentTab = "dashboard"
    /\ storedExpenses = <<>>
    /\ expenses = <<>>
    /\ insights = <<>>
    /\ weeklyData = <<>>
    /\ upload = NoUpload
    /\ ScrIdle
    /\ categories = DEFAULT_CATEGORIES
    /\ today = AdvToday
    /\ clock = 1
    /\ goal = NoGoal
    /\ advice = <<>>
    /\ description = <<>>
    /\ categoryId = "none"
    /\ csvContent = <<>>
    /\ parsed = [status |-> "none", transactions |-> <<>>]
    /\ DateIdle
    /\ EngIdle

appFrame == <<mode, pc, categories, today, goal, advice, description, categoryId,
              csvContent, parsed, dateVars, engVars, scrVars>>

\* AuthContext.login succeeding for a registered user; the screen of the
\* current tab mounts and loads
Login(u) ==
    /\ mode = "app"
    /\ user = "null"
    /\ user' = u
    /\ expenses' = loadedExpenses(storedExpenses, u)
    /\ insights' = loadedInsights(currentTab, storedExpenses, u, categories, today)
    /\ weeklyData' = loadedWeeklyData(currentTab, storedExpenses, u, currentTime, tzOffset)
    /\ UNCHANGED <<currentTab, storedExpenses, upload, clock, appFrame>>

\* AuthContext.logout; the screen unmounts
Logout ==
    /\ mode = "app"
    /\ user # "null"
    /\ user' = "null"
    /\ expenses' = <<>>
    /\ insights' = <<>>
    /\ weeklyData' = <<>>
    /\ upload' = [upload EXCEPT !.live = FALSE]
    /\ UNCHANGED <<currentTab, storedExpenses, clock, appFrame>>

\* Layout's onTabChange: the old screen unmounts, the new one mounts and loads
SelectTab(t) ==
    /\ mode = "app"
    /\ user # "null"
    /\ t # currentTab
    /\ currentTab' = t
    /\ expenses' = loadedExpenses(storedExpenses, user)
    /\ insights' = loadedInsights(t, storedExpenses, user, categories, today)
    /\ weeklyData' = loadedWeeklyData(t, storedExpenses, user, currentTime, tzOffset)
    /\ upload' = [upload EXCEPT !.live = FALSE]
    /\ UNCHANGED <<user, storedExpenses, clock, appFrame>>

\* ExpenseManager.handleManualSubmit
handleManualSubmit(amount, desc, date) ==
    /\ mode = "app"
    /\ user # "null"
    /\ currentTab = "expenses"
    /\ clock <= MaxClock
    /\ amount # <<>> /\ desc # <<>>
    /\ categorizeExpense(desc, categories) # TypeError
    /\ LET newExpense == [id |-> <<"exp-", clock>>,
                          userId |-> user,
                          categoryId |-> categorizeExpense(desc, categories),
                          amount |-> parseFloat(amount),
                          description |-> desc,
                          transactionDate |-> date,
                          source |-> "manual",
                          createdAt |-> clock]
       IN  /\ storedExpenses' = Append(storedExpenses, newExpense)
           /\ expenses' = loadedExpenses(storedExpenses', user)
    /\ clock' = clock + 1
    /\ UNCHANGED <<user, currentTab, insights, weeklyData, upload, appFrame>>

\* ExpenseManager.handleFileUpload up to the await of fetch
handleFileUploadStart ==
    /\ mode = "app"
    /\ user # "null"
    /\ currentTab = "expenses"
    /\ ~upload.pending
    /\ upload' = [pending |-> TRUE, userId |-> user, live |-> TRUE]
    /\ UNCHANGED <<user, currentTab, storedExpenses, expenses, insights, weeklyData, clock, appFrame>>

\* the expenses handleFileUpload builds from the service's answer
newExpensesOf(response, u, cats, ms) ==
    [k \in 1..Len(response) |->
        [id |-> <<"exp-", ms, k>>,
         userId |-> u,
         categoryId |-> IF response[k].categoryId # ""
                        THEN response[k].categoryId
                        ELSE categorizeExpense(response[k].description, cats),
         amount |-> response[k].amount,
         description |-> response[k].description,
         transactionDate |-> response[k].date,
         source |-> "csv_upload_backend",
         createdAt |-> ms]]

\* ExpenseManager.handleFileUpload after the service answered with response:
\* the expenses are stored for the user who started the upload, and the
\* screen reloads if it is still the one that started it
handleFileUploadDone(response) ==
    /\ mode = "app"
    /\ upload.pending
    /\ clock <= MaxClock
    /\ storedExpenses' =
          storedExpenses \o newExpensesOf(response, upload.userId, categories, clock)
    /\ expenses' = IF upload.live THEN loadedExpenses(storedExpenses', upload.userId)
                   ELSE expenses
    /\ upload' = NoUpload
    /\ clock' = clock + 1
    /\ UNCHANGED <<user, currentTab, insights, weeklyData, appFrame>>

\* ExpenseManager.handleFileUpload when fetch fails or answers an error status
handleFileUploadFailed ==
    /\ mode = "app"
    /\ upload.pending
    /\ upload' = NoUpload
    /\ UNCHANGED <<user, currentTab, storedExpenses, expenses, insights, weeklyData, clock, appFrame>>

\* ExpenseManager.handleDelete for a listed expense
handleDelete(id) ==
    /\ mode = "app"
    /\ user # "null"
    /\ currentTab = "expenses"
    /\ \E i \in 1..Len(expenses) : expenses[i].id = id
    /\ storedExpenses' = SelectSeq(storedExpenses, LAMBDA e : e.id # id)
    /\ expenses' = loadedExpenses(storedExpenses', user)
    /\ UNCHANGED <<user, currentTab, insights, weeklyData, upload, clock, appFrame>>

NextApp ==
    \/ \E u \in UserIds : Login(u)
    \/ Logout
    \/ \E t \in Tabs : SelectTab(t)
    \/ \E a \in FormAmounts, d \in FormDescriptions, dt \in FormDates :
          handleManualSubmit(a, d, dt)
    \/ handleFileUploadStart
    \/ \E r \in UploadResponses : handleFileUploadDone(r)
    \/ handleFileUploadFailed
    \/ \E i \in 1..Len(expenses) : handleDelete(expenses[i].id)

SpecApp == InitApp /\ [][NextApp]_vars

(***************************************************************************)
(* Claims about the dashboard's aggregation.                               *)
(***************************************************************************)

\* the logged-in user's stored expenses of the current month
StoredThisMonth ==
    SelectSeq(storedExpenses,
              LAMBDA e : e.userId = user /\ SubSeq(e.transactionDate, 1, 7) = SubSeq(today, 1, 7))

\* the dashboard shows the figures of what is stored
DashboardFresh ==
    /\ mode = "app"
    /\ user # "null"
    /\ currentTab = "dashboard"
    /\ expenses = ownExpenses(storedExpenses, user)

\* C9: when the month has an expense, the amounts of the emitted category
\* totals add up to the month total the percentages are taken of, so the
\* percentages sum to 100: no expense of the month is left out of the emitted
\* set.
C9_PercentagesSumTo100 ==
    (DashboardFresh /\ Len(StoredThisMonth) > 0)
        => Total(insights) = Total(StoredThisMonth)

(***************************************************************************)
(* Claims about the stored expenses.                                       *)
(***************************************************************************)

\* C21: after any sequence of manual additions, imports and deletions, every
\* stored expense has a strictly positive amount: an addition whose amount
\* is zero, negative or not a number stores nothing.
C21_PositiveStoredAmounts ==
    mode = "app" => \A i \in 1..Len(storedExpenses) : Positive(storedExpenses[i].amount)

\* a step leaves the stored expenses of every user but the acting one as
\* they were; the acting user is the logged-in one, or for the completion
\* of an import the one who started it
OthersUntouched ==
    \A u \in UserIds :
        ownExpenses(storedExpenses', u) # ownExpenses(storedExpenses, u)
            => \/ u = user
               \/ upload.pending /\ ~upload'.pending /\ u = upload.userId

getWeekNumber(t, tz) ==
    LET year == getFullYear(t, tz)
        firstDayOfYear == DaysBeforeYear(year) * MinutesPerDay - tz
        pastMinutesOfYear == t - firstDayOfYear
        sevenDays == 7 * MinutesPerDay
    IN  (pastMinutesOfYear + (getDay(firstDayOfYear, tz) + 1) * MinutesPerDay + sevenDays - 1)
            \div sevenDays

\* the anomaly test with >= in place of the second >
anomalyFiresAtDouble(lastWeekTotal, thisWeekTotal) ==
    /\ Greater(lastWeekTotal, Int2Num(0))
    /\ ~Greater(Times(lastWeekTotal, Int2Num(2)), thisWeekTotal)

\* lastWeekTotal > 0 && thisWeekTotal > lastWeekTotal * 2
anomalyFires(lastWeekTotal, thisWeekTotal) ==
    /\ Greater(lastWeekTotal, Int2Num(0))
    /\ Greater(thisWeekTotal, Times(lastWeekTotal, Int2Num(2)))

\* the alerts the categories give, in the order of categories.forEach
RECURSIVE alertsOf(_, _, _)
alertsOf(cats, thisWeekExpenses, lastWeekExpenses) ==
    IF cats = <<>> THEN <<>>
    ELSE LET category == Head(cats)
             thisWeekTotal ==
                 reduceAmounts(SelectSeq(thisWeekExpenses,
                                         LAMBDA e : e.categoryId = category.id))
             lastWeekTotal ==
                 reduceAmounts(SelectSeq(lastWeekExpenses,
                                         LAMBDA e : e.categoryId = category.id))
             rest == alertsOf(Tail(cats), thisWeekExpenses, lastWeekExpenses)
         IN  IF category.name # "Others" /\ anomalyFires(lastWeekTotal, thisWeekTotal)
             THEN <<<<"This week you spent", toFixed0(thisWeekTotal), category.name,
                      toFixed0(lastWeekTotal)>>>> \o rest
             ELSE rest

\* detectAnomalies called at instant now in a runtime of time zone tz
detectAnomalies(exps, cats, now, tz) ==
    LET currentWeek == getWeekNumber(now, tz)
        lastWeek == currentWeek - 1
        thisWeekExpenses ==
            SelectSeq(exps, LAMBDA e : getWeekNumber(dateTime(e.transactionDate), tz) = currentWeek)
        lastWeekExpenses ==
            SelectSeq(exps, LAMBDA e : getWeekNumber(dateTime(e.transactionDate), tz) = lastWeek)
    IN  alertsOf(cats, thisWeekExpenses, lastWeekExpenses)

(***************************************************************************)
(* Inputs of detectAnomalies.                                              *)
(***************************************************************************)
MaxAnomalyExpenses == 4

\* expenses of this week (2026-11-03), of last week (2026-10-27) and of an
\* earlier week
AnomalyExpense ==
    {[categoryId |-> "cat-1", amount |-> Int2Num(100), transactionDate |-> <<"2", "0", "2", "6", "-", "1", "0", "-", "2", "7">>],
     [categoryId |-> "cat-1", amount |-> Int2Num(200), transactionDate |-> <<"2", "0", "2", "6", "-", "1", "1", "-", "0", "3">>],
     [categoryId |-> "cat-2", amount |-> Int2Num(100), transactionDate |-> <<"2", "0", "2", "6", "-", "1", "0", "-", "2", "7">>],
     [categoryId |-> "cat-2", amount |-> Int2Num(300), transactionDate |-> <<"2", "0", "2", "6", "-", "1", "1", "-", "0", "3">>],
     [categoryId |-> "cat-6", amount |-> Int2Num(100), transactionDate |-> <<"2", "0", "2", "6", "-", "1", "0", "-", "2", "7">>],
     [categoryId |-> "cat-6", amount |-> Int2Num(300), transactionDate |-> <<"2", "0", "2", "6", "-", "1", "1", "-", "0", "3">>],
     [categoryId |-> "cat-1", amount |-> Int2Num(300), transactionDate |-> <<"2", "0", "2", "6", "-", "1", "0", "-", "0", "1">>]}

AnomalyExpenseLists == UNION {[1..k -> AnomalyExpense] : k \in 0..MaxAnomalyExpenses}

\* the seeded list, and a shorter list in another order
AnomalyCategoryLists ==
    {DEFAULT_CATEGORIES,
     <<DEFAULT_CATEGORIES[6], DEFAULT_CATEGORIES[2], DEFAULT_CATEGORIES[1]>>}

\* UTC and India Standard Time
TimeZones == {0, 330}

InitAnomaly ==
    /\ mode = "anomaly"
    /\ pc = "input"
    /\ expenses \in AnomalyExpenseLists
    /\ categories \in AnomalyCategoryLists
    /\ today = AdvToday
    /\ timeOfDay = 720
    /\ tzOffset \in TimeZones
    /\ alerts = <<>>
    /\ message = <<>>
    /\ aiResponse = <<>>
    /\ results = <<>>
    /\ goal = NoGoal
    /\ clock = 1
    /\ advice = <<>>
    /\ description = <<>>
    /\ categoryId = "none"
    /\ csvContent = <<>>
    /\ parsed = [status |-> "none", transactions |-> <<>>]
    /\ DateIdle
    /\ AppIdle

DetectAnomalies ==
    /\ mode = "anomaly"
    /\ pc = "input"
    /\ alerts' = detectAnomalies(expenses, categories, currentTime, tzOffset)
    /\ pc' = "done"
    /\ UNCHANGED <<mode, expenses, categories, today, timeOfDay, tzOffset, message,
                   aiResponse, results, goal, clock, advice, description, categoryId,
                   csvContent, parsed, dateVars, appVars>>

NextAnomaly == DetectAnomalies

SpecAnomaly == InitAnomaly /\ [][NextAnomaly]_vars

(***************************************************************************)
(* Claims about detectAnomalies.  The weeks are the week numbers of        *)
(* getWeekNumber.                                                          *)
(***************************************************************************)

\* the week number of each expense
ExpenseWeeks ==
    [j \in 1..Len(expenses) |->
        getWeekNumber(dateTime(expenses[j].transactionDate), tzOffset)]

\* the sum of the amounts of the expenses at the positions js
RECURSIVE TotalAt(_)
TotalAt(js) ==
    IF js = {} THEN Int2Num(0)
    ELSE LET j == CHOOSE x \in js : TRUE
         IN  Plus(expenses[j].amount, TotalAt(js \ {j}))

\* the total of the category at position i in the week numbered w
WeekTotal(i, w, weeks) ==
    TotalAt({j \in 1..Len(expenses) :
                expenses[j].categoryId = categories[i].id /\ weeks[j] = w})

ThisWeekTotal(i) == WeekTotal(i, getWeekNumber(currentTime, tzOffset), ExpenseWeeks)

LastWeekTotal(i) == WeekTotal(i, getWeekNumber(currentTime, tzOffset) - 1, ExpenseWeeks)

\* the positions of the categories an alert is due for, in list order
Triggering ==
    LET weeks == ExpenseWeeks
        currentWeek == getWeekNumber(currentTime, tzOffset)
    IN  SelectSeq([i \in 1..Len(categories) |-> i],
                  LAMBDA i :
                      /\ categories[i].name # "Others"
                      /\ Greater(WeekTotal(i, currentWeek - 1, weeks), Int2Num(0))
                      /\ Greater(WeekTotal(i, currentWeek, weeks),
                                 Times(Int2Num(2), WeekTotal(i, currentWeek - 1, weeks))))

abs(a) == IF a.kind = "number" THEN Number(Abs(a.n), a.d) ELSE [a EXCEPT !.n = Abs(@)]

\* categoryTotals.forEach of the biggest-expense branch: the pair of
\* maxAmount and maxCategory after the entries, starting from max
RECURSIVE maxOfTotals(_, _, _)
maxOfTotals(entries, cats, max) ==
    IF entries = <<>> THEN max
    ELSE LET c == findCategory(cats, Head(entries).categoryId)
             name == IF c # 0 /\ cats[c].name # "" THEN cats[c].name ELSE "Unknown"
         IN  IF Greater(Head(entries).amount, max.maxAmount)
             THEN maxOfTotals(Tail(entries), cats,
                              [maxAmount |-> Head(entries).amount, maxCategory |-> name])
             ELSE maxOfTotals(Tail(entries), cats, max)

biggestExpenseResponse(exps, cats, now) ==
    LET totals == categoryTotals(monthExpenses(exps, now))
        max == maxOfTotals(totals, cats, [maxAmount |-> Int2Num(0), maxCategory |-> ""])
    IN  IF max.maxCategory # ""
        THEN <<"Your biggest expense this month is", max.maxCategory, toFixed0(max.maxAmount)>>
        ELSE <<"You don't have any expenses recorded yet this month.">>

savingsResponse(exps, cats, g, now, ms) ==
    LET adv == generateAdvice(exps, cats, g, now, ms)
    IN  IF Len(adv) > 0
        THEN <<"Here are some savings tips:",
               [k \in 1..(IF Len(adv) < 2 THEN Len(adv) ELSE 2) |-> adv[k].message]>>
        ELSE <<"Great spending habits!">>

goalResponse(exps, g, now) ==
    IF ~(g.present /\ g.active)
    THEN <<"You haven't set a savings goal yet.">>
    ELSE LET totalSpent == reduceAmounts(monthExpenses(exps, now))
             remaining == Minus(g.monthlyTarget, totalSpent)
         IN  IF Greater(remaining, Int2Num(0))
             THEN <<"You're on track!", toFixed0(remaining), g.monthlyTarget>>
             ELSE <<"You've exceeded your goal by", toFixed0(abs(remaining))>>

helpResponse == <<"I'm here to help you manage your finances!">>

\* categories.find(c => c.name === 'Travel'): its index, 0 for undefined
findTravel(cats) ==
    IF \E i \in 1..Len(cats) : cats[i].name = "Travel"
    THEN CHOOSE i \in 1..Len(cats) :
            cats[i].name = "Travel" /\ \A j \in 1..(i - 1) : cats[j].name # "Travel"
    ELSE 0

\* the travel branch; without a category named Travel the function goes on to
\* its last return
travelResponse(exps, cats, now) ==
    LET travelCat == findTravel(cats)
        travelExpenses ==
            SelectSeq(exps, LAMBDA x : /\ x.categoryId = cats[travelCat].id
                                       /\ startsWith(x.transactionDate, currentMonth(now)))
        total == reduceAmounts(travelExpenses)
    IN  IF travelCat = 0 THEN helpResponse
        ELSE IF Greater(total, Int2Num(0))
        THEN <<"You've spent on travel this month", toFixed0(total)>>
        ELSE <<"You haven't recorded any travel expenses this month.">>

generateChatResponse(msg, exps, cats, g, now, ms) ==
    LET lowerMessage == toLowerCase(msg)
    IN  IF includes(lowerMessage, <<"b", "i", "g", "g", "e", "s", "t">>) /\ includes(lowerMessage, <<"e", "x", "p", "e", "n", "s", "e">>)
        THEN biggestExpenseResponse(exps, cats, now)
        ELSE IF includes(lowerMessage, <<"s", "a", "v", "e">>) \/ includes(lowerMessage, <<"s", "a", "v", "i", "n", "g">>)
        THEN savingsResponse(exps, cats, g, now, ms)
        ELSE IF includes(lowerMessage, <<"g", "o", "a", "l">>)
        THEN goalResponse(exps, g, now)
        ELSE IF includes(lowerMessage, <<"t", "r", "a", "n", "s", "p", "o", "r", "t">>) \/ includes(lowerMessage, <<"t", "r", "a", "v", "e", "l">>)
        THEN travelResponse(exps, cats, now)
        ELSE helpResponse

(***************************************************************************)
(* Inputs of generateChatResponse.                                         *)
(***************************************************************************)
MaxChatExpenses == 2

ChatMessages ==
    {<<"W", "h", "a", "t", " ", "i", "s", " ", "m", "y", " ", "b", "i", "g", "g", "e", "s", "t", " ", "e", "x", "p", "e", "n", "s", "e", "?">>,
     <<"B", "i", "g", "g", "e", "s", "t", " ", "e", "x", "p", "e", "n", "s", "e", "s", " ", "t", "o", " ", "s", "a", "v", "e", " ", "o", "n", " ", "t", "r", "a", "v", "e", "l">>,
     <<"H", "o", "w", " ", "c", "a", "n", " ", "I", " ", "s", "a", "v", "e", " ", "o", "n", " ", "t", "r", "a", "n", "s", "p", "o", "r", "t", "?">>,
     <<"S", "a", "v", "i", "n", "g", "s", " ", "g", "o", "a", "l">>,
     <<"A", "m", " ", "I", " ", "m", "e", "e", "t", "i", "n", "g", " ", "m", "y", " ", "g", "o", "a", "l", "?">>,
     <<"g", "o", "a", "l", " ", "f", "o", "r", " ", "t", "r", "a", "v", "e", "l">>,
     <<"T", "R", "A", "V", "E", "L", " ", "c", "o", "s", "t", "s">>,
     <<"h", "e", "l", "p", " ", "w", "i", "t", "h", " ", "t", "r", "a", "n", "s", "p", "o", "r", "t">>,
     <<"h", "e", "l", "l", "o">>,
     <<"m", "y", " ", "b", "i", "g", "g", "e", "s", "t", " ", "g", "o", "a", "l">>}

\* expenses of the current and of the previous month; one has an amount the
\* manual form stores unvalidated, one a category id the list does not hold
ChatExpense ==
    {[categoryId |-> "cat-1", amount |-> Int2Num(300), transactionDate |-> <<"2", "0", "2", "6", "-", "1", "1", "-", "0", "3">>],
     [categoryId |-> "cat-1", amount |-> Int2Num(700), transactionDate |-> <<"2", "0", "2", "6", "-", "1", "1", "-", "0", "3">>],
     [categoryId |-> "cat-2", amount |-> Int2Num(700), transactionDate |-> <<"2", "0", "2", "6", "-", "1", "1", "-", "0", "3">>],
     [categoryId |-> "cat-2", amount |-> Int2Num(1600), transactionDate |-> <<"2", "0", "2", "6", "-", "1", "0", "-", "3", "0">>],
     [categoryId |-> "cat-1", amount |-> Int2Num(0 - 300), transactionDate |-> <<"2", "0", "2", "6", "-", "1", "1", "-", "0", "3">>],
     [categoryId |-> "cat-9", amount |-> Int2Num(1600), transactionDate |-> <<"2", "0", "2", "6", "-", "1", "1", "-", "0", "3">>]}

ChatExpenseLists == UNION {[1..k -> ChatExpense] : k \in 0..MaxChatExpenses}

ChatGoals == {NoGoal} \cup [present : {TRUE}, monthlyTarget : {Int2Num(1000)}, active : BOOLEAN]

\* the seeded list, and a list without a category named Travel
ChatCategoryLists == {DEFAULT_CATEGORIES, ScenarioCategories}

InitChat ==
    /\ mode = "chat"
    /\ pc = "input"
    /\ message \in ChatMessages
    /\ expenses \in ChatExpenseLists
    /\ categories \in ChatCategoryLists
    /\ goal \in ChatGoals
    /\ today = AdvToday
    /\ clock = 1
    /\ aiResponse = <<>>
    /\ alerts = <<>>
    /\ tzOffset = 0
    /\ timeOfDay = 0
    /\ results = <<>>
    /\ advice = <<>>
    /\ description = <<>>
    /\ categoryId = "none"
    /\ csvContent = <<>>
    /\ parsed = [status |-> "none", transactions |-> <<>>]
    /\ DateIdle
    /\ AppIdle

GenerateChatResponse ==
    /\ mode = "chat"
    /\ pc = "input"
    /\ aiResponse' = generateChatResponse(message, expenses, categories, goal, today, clock)
    /\ pc' = "done"
    /\ UNCHANGED <<mode, message, expenses, categories, goal, today, clock, alerts, tzOffset,
                   timeOfDay, results, advice, description, categoryId, csvContent, parsed,
                   dateVars, appVars>>

NextChat == GenerateChatResponse

SpecChat == InitChat /\ [][NextChat]_vars

(***************************************************************************)
(* Claims about generateChatResponse.                                      *)
(***************************************************************************)

\* the query contains the word, letter case ignored
Asks(word) == ContainsIgnoringCase(message, word)

\* the first intent, in the fixed order, whose keywords occur in the query
FirstIntent ==
    IF Asks(<<"b", "i", "g", "g", "e", "s", "t">>) /\ Asks(<<"e", "x", "p", "e", "n", "s", "e">>) THEN "biggest"
    ELSE IF Asks(<<"s", "a", "v", "e">>) \/ Asks(<<"s", "a", "v", "i", "n", "g">>) THEN "save"
    ELSE IF Asks(<<"g", "o", "a", "l">>) THEN "goal"
    ELSE IF Asks(<<"t", "r", "a", "n", "s", "p", "o", "r", "t">>) \/ Asks(<<"t", "r", "a", "v", "e", "l">>) THEN "travel"
    ELSE "help"

\* the intent a response belongs to
IntentOf(r) ==
    IF r[1] \in {"Your biggest expense this month is",
                 "You don't have any expenses recorded yet this month."} THEN "biggest"
    ELSE IF r[1] \in {"Here are some savings tips:", "Great spending habits!"} THEN "save"
    ELSE IF r[1] \in {"You haven't set a savings goal yet.", "You're on track!",
                      "You've exceeded your goal by"} THEN "goal"
    ELSE IF r[1] \in {"You've spent on travel this month",
                      "You haven't recorded any travel expenses this month."} THEN "travel"
    ELSE "help"

ChatDone == mode = "chat" /\ pc = "done"

\* C15: generateChatResponse answers with the response of the first intent, in
\* the order biggest+expense, save/saving, goal, transport/travel, help, whose
\* keywords occur in the query; a query matching several intents gets the
\* response of the earliest one only.
C15_IntentPriority == ChatDone => IntentOf(aiResponse) = FirstIntent

\* the current-month expenses of the categories named Travel
TravelThisMonth == MonthOf("Travel")

\* C16: a query whose first matching intent is transport/travel is answered
\* with the current-month Travel total or with the no-travel-data message,
\* for every category list, and never with the generic help message.
C16_TravelIntent ==
    (ChatDone /\ FirstIntent = "travel")
        => \/ aiResponse = <<"You haven't recorded any travel expenses this month.">>
           \/ aiResponse = <<"You've spent on travel this month",
                             toFixed0(Total(TravelThisMonth))>>

\* C17: for a goal query with an active goal the response reports an overage
\* exactly when the current month's spend exceeds the target, which is exactly
\* when generateAdvice emits the goal-at-risk item for the same inputs, and
\* the remaining budget otherwise (also at equality); without an active goal
\* it prompts to set one.
C17_GoalAnswerConsistent ==
    (ChatDone /\ FirstIntent = "goal")
        => IF goal.present /\ goal.active
           THEN /\ (aiResponse[1] = "You've exceeded your goal by")
                     <=> Greater(Total(ThisMonth), goal.monthlyTarget)
                /\ (aiResponse[1] = "You've exceeded your goal by")
                     <=> \E i \in 1..Len(generateAdvice(expenses, categories, goal, today, clock)) :
                            generateAdvice(expenses, categories, goal, today, clock)[i].category
                                = "Goal"
                /\ aiResponse[1] \in {"You've exceeded your goal by", "You're on track!"}
           ELSE aiResponse = <<"You haven't set a savings goal yet.">>

\* the ids of the categories of the current month's expenses
MonthCategoryIds == {ThisMonth[j].categoryId : j \in 1..Len(ThisMonth)}

\* the current-month total of the expenses of category id
MonthTotalOf(id) == Total(SelectSeq(ThisMonth, LAMBDA x : x.categoryId = id))

\* C18: for a query with "biggest" and "expense" the response is the no-data
\* message exactly when the current month has no expense; otherwise it names
\* a category whose current-month total is the highest, with that total.
\* Expenses of other months play no part.
C18_BiggestExpense ==
    (ChatDone /\ FirstIntent = "biggest")
        => IF ThisMonth = <<>>
           THEN aiResponse = <<"You don't have any expenses recorded yet this month.">>
           ELSE \E id \in MonthCategoryIds :
                   /\ \A other \in MonthCategoryIds :
                         ~Greater(MonthTotalOf(other), MonthTotalOf(id))
                   /\ aiResponse[1] = "Your biggest expense this month is"
                   /\ aiResponse[3] = toFixed0(MonthTotalOf(id))
                   /\ \A i \in 1..Len(categories) :
                         categories[i].id = id => aiResponse[2] = categories[i].name

(***************************************************************************)
(* Two invocations of an engine function with the same arguments, at       *)
(* different times of the wall clock.                                      *)
(***************************************************************************)
RepeatExpenseLists ==
    {<<>>,
     <<[categoryId |-> "cat-1", amount |-> Int2Num(700), transactionDate |-> <<"2", "0", "2", "6", "-", "1", "1", "-", "0", "3">>]>>,
     <<[categoryId |-> "cat-1", amount |-> Int2Num(100), transactionDate |-> <<"2", "0", "2", "6", "-", "1", "0", "-", "2", "7">>],
       [categoryId |-> "cat-1", amount |-> Int2Num(300), transactionDate |-> <<"2", "0", "2", "6", "-", "1", "1", "-", "0", "3">>]>>,
     <<[categoryId |-> "cat-2", amount |-> Int2Num(700), transactionDate |-> <<"2", "0", "2", "6", "-", "1", "1", "-", "0", "3">>],
       [categoryId |-> "cat-1", amount |-> Int2Num(300), transactionDate |-> <<"2", "0", "2", "6", "-", "1", "1", "-", "0", "3">>]>>}

RepeatMessages == {<<"W", "h", "a", "t", " ", "i", "s", " ", "m", "y", " ", "b", "i", "g", "g", "e", "s", "t", " ", "e", "x", "p", "e", "n", "s", "e", "?">>, <<"H", "o", "w", " ", "c", "a", "n", " ", "I", " ", "s", "a", "v", "e", " ", "o", "n", " ", "t", "r", "a", "n", "s", "p", "o", "r", "t", "?">>}

\* a date of the wall clock after AdvToday, in the next month
LaterDate == <<"2", "0", "2", "6", "-", "1", "2", "-", "0", "1">>

InitRepeat ==
    /\ mode = "repeat"
    /\ pc = "input"
    /\ expenses \in RepeatExpenseLists
    /\ categories = DEFAULT_CATEGORIES
    /\ goal \in ChatGoals
    /\ message \in RepeatMessages
    /\ today = AdvToday
    /\ timeOfDay = 720
    /\ tzOffset = 0
    /\ clock = 1
    /\ results = <<>>
    /\ aiResponse = <<>>
    /\ alerts = <<>>
    /\ advice = <<>>
    /\ description = <<>>
    /\ categoryId = "none"
    /\ csvContent = <<>>
    /\ parsed = [status |-> "none", transactions |-> <<>>]
    /\ DateIdle
    /\ AppIdle

repeatFrame == <<mode, pc, expenses, categories, goal, message, timeOfDay, tzOffset,
                 aiResponse, alerts, advice, description, categoryId, csvContent, parsed,
                 dateVars, appVars>>

\* the wall clock advances between two invocations
TimePasses ==
    /\ mode = "repeat"
    /\ clock <= MaxClock
    /\ clock' = clock + 1
    /\ today' \in {today, LaterDate}
    /\ UNCHANGED <<results, repeatFrame>>

\* whether the function fn may be invoked now: twice at most, and the second
\* invocation is of the function invoked first
mayInvoke(fn) ==
    /\ mode = "repeat"
    /\ Len(results) < 2
    /\ (IF results = <<>> THEN TRUE ELSE results[1].fn = fn)

InvokeGenerateAdvice ==
    /\ mayInvoke("generateAdvice")
    /\ results' = Append(results,
                         [fn |-> "generateAdvice",
                          value |-> generateAdvice(expenses, categories, goal, today, clock)])
    /\ UNCHANGED <<clock, today, repeatFrame>>

InvokeDetectAnomalies ==
    /\ mayInvoke("detectAnomalies")
    /\ results' = Append(results,
                         [fn |-> "detectAnomalies",
                          value |-> detectAnomalies(expenses, categories, currentTime,
                                                    tzOffset)])
    /\ UNCHANGED <<clock, today, repeatFrame>>

InvokeGenerateChatResponse ==
    /\ mayInvoke("generateChatResponse")
    /\ results' = Append(results,
                         [fn |-> "generateChatResponse",
                          value |-> generateChatResponse(message, expenses, categories, goal,
                                                         today, clock)])
    /\ UNCHANGED <<clock, today, repeatFrame>>

NextRepeat ==
    \/ TimePasses
    \/ InvokeGenerateAdvice
    \/ InvokeDetectAnomalies
    \/ InvokeGenerateChatResponse

SpecRepeat == InitRepeat /\ [][NextRepeat]_vars

\* C19: two invocations of generateAdvice, detectAnomalies or
\* generateChatResponse with identical arguments return identical results,
\* advice identifiers included, whatever the wall-clock time of each
\* invocation is.
C19_Determinism ==
    (mode = "repeat" /\ Len(results) = 2) => results[1].value = results[2].value

(***************************************************************************)
(* Dashboard.loadData on given expenses: the rolling four weeks.           *)
(***************************************************************************)
MaxWeeklyExpenses == 2

\* expenses of this week, of the three weeks before and of an earlier month
WeeklyDates ==
    {<<"2", "0", "2", "6", "-", "1", "1", "-", "0", "3">>, <<"2", "0", "2", "6", "-", "1", "0", "-", "2", "8">>,
     <<"2", "0", "2", "6", "-", "1", "0", "-", "2", "0">>, <<"2", "0", "2", "6", "-", "1", "0", "-", "1", "2">>,
     <<"2", "0", "2", "6", "-", "0", "9", "-", "0", "1">>}

WeeklyExpense ==
    [categoryId : {"cat-1"}, amount : {Int2Num(100), Int2Num(250)}, transactionDate : WeeklyDates]

WeeklyExpenseLists == UNION {[1..k -> WeeklyExpense] : k \in 0..MaxWeeklyExpenses}

\* midnight and noon UTC
TimesOfDay == {0, 720}

InitWeekly ==
    /\ mode = "weekly"
    /\ pc = "input"
    /\ expenses \in WeeklyExpenseLists
    /\ categories = DEFAULT_CATEGORIES
    /\ today = AdvToday
    /\ timeOfDay \in TimesOfDay
    /\ tzOffset \in TimeZones
    /\ insights = <<>>
    /\ weeklyData = <<>>
    /\ user = "null"
    /\ currentTab = "dashboard"
    /\ storedExpenses = <<>>
    /\ upload = NoUpload
    /\ ScrIdle
    /\ alerts = <<>>
    /\ message = <<>>
    /\ aiResponse = <<>>
    /\ results = <<>>
    /\ goal = NoGoal
    /\ clock = 1
    /\ advice = <<>>
    /\ description = <<>>
    /\ categoryId = "none"
    /\ csvContent = <<>>
    /\ parsed = [status |-> "none", transactions |-> <<>>]
    /\ DateIdle

\* Dashboard.loadData with allExpenses = expenses
DashboardLoadData ==
    /\ mode = "weekly"
    /\ pc = "input"
    /\ insights' = dashboardInsights(expenses, categories, today)
    /\ weeklyData' = last4Weeks(expenses, currentTime, tzOffset)
    /\ pc' = "done"
    /\ UNCHANGED <<mode, expenses, categories, today, timeOfDay, tzOffset, message,
                   aiResponse, alerts, results, goal, clock, advice, description, categoryId,
                   csvContent, parsed, dateVars, user, currentTab, storedExpenses, upload,
                   scrVars>>

NextWeekly == DashboardLoadData

SpecWeekly == InitWeekly /\ [][NextWeekly]_vars

(***************************************************************************)
(* Claims about the rolling four weeks.                                    *)
(***************************************************************************)

\* the start of the week j weeks back: the instant of now moved back to the
\* Sunday of its local week and then by j whole weeks
WeekStart(j) ==
    currentTime - (getDay(currentTime, tzOffset) + 7 * j) * MinutesPerDay

\* the bucket of the week j weeks back: the expenses whose distance from the
\* week's start, in days rounded up, is under 7
Bucket(j) ==
    SelectSeq(expenses,
              LAMBDA e : Abs(dateTime(e.transactionDate) - WeekStart(j)) <= 6 * MinutesPerDay)

\* C23 as stated: the aggregator produces exactly four weekly totals and
\* lists them most recent week first.
C23_FourTotalsRecentFirst ==
    (mode = "weekly" /\ pc = "done")
        => /\ Len(weeklyData) = 4
           /\ \A k \in 1..4 : weeklyData[k].amount = Total(Bucket(k - 1))

\* C23 amended: the aggregator produces exactly four weekly totals and lists
\* them oldest week first, labelled Week 1 to Week 4: the last one is the
\* current week's.
C23_FourTotalsOldestFirst ==
    (mode = "weekly" /\ pc = "done")
        => /\ Len(weeklyData) = 4
           /\ \A k \in 1..4 : /\ weeklyData[k].amount = Total(Bucket(4 - k))
                              /\ weeklyData[k].week = <<"Week ", k>>

\* the totals are there and the current week's differs from the oldest's
C23_Witness ==
    /\ mode = "weekly"
    /\ pc = "done"
    /\ Len(weeklyData) = 4
    /\ weeklyData[4].amount # weeklyData[1].amount
    /\ Greater(weeklyData[4].amount, Int2Num(0))
    /\ Greater(weeklyData[1].amount, Int2Num(0))

\* C27: every expense is counted in at most one of the four weekly buckets,
\* so the four weekly totals never add up to more than the sum of all the
\* expenses.
C27_NoDoubleCounting ==
    (mode = "weekly" /\ pc = "done")
        => ~Greater(Total(weeklyData), Total(expenses))

(***************************************************************************)
(* detectAnomalies around the turn of a year.  By getWeekNumber, noon of   *)
(* 2027-01-01 is in week 1 of 2027 and noon of 2027-01-06 in week 2; the   *)
(* expenses are dated in week 1 and week 2 of 2027, in week 53 of 2026     *)
(* (its last) and in week 1 and week 2 of 2026.                            *)
(***************************************************************************)
MaxYearTurnExpenses == 3

YearTurnTodays == {<<"2", "0", "2", "7", "-", "0", "1", "-", "0", "1">>, <<"2", "0", "2", "7", "-", "0", "1", "-", "0", "6">>}

YearTurnExpense ==
    {[categoryId |-> "cat-1", amount |-> Int2Num(300), transactionDate |-> <<"2", "0", "2", "7", "-", "0", "1", "-", "0", "1">>],
     [categoryId |-> "cat-1", amount |-> Int2Num(100), transactionDate |-> <<"2", "0", "2", "6", "-", "1", "2", "-", "2", "9">>],
     [categoryId |-> "cat-1", amount |-> Int2Num(300), transactionDate |-> <<"2", "0", "2", "7", "-", "0", "1", "-", "0", "5">>],
     [categoryId |-> "cat-1", amount |-> Int2Num(100), transactionDate |-> <<"2", "0", "2", "6", "-", "0", "1", "-", "0", "2">>],
     [categoryId |-> "cat-1", amount |-> Int2Num(100), transactionDate |-> <<"2", "0", "2", "6", "-", "0", "1", "-", "0", "6">>]}

YearTurnExpenseLists == UNION {[1..k -> YearTurnExpense] : k \in 0..MaxYearTurnExpenses}

InitYearTurn ==
    /\ mode = "anomaly"
    /\ pc = "input"
    /\ expenses \in YearTurnExpenseLists
    /\ categories = DEFAULT_CATEGORIES
    /\ today \in YearTurnTodays
    /\ timeOfDay = 720
    /\ tzOffset \in TimeZones
    /\ alerts = <<>>
    /\ message = <<>>
    /\ aiResponse = <<>>
    /\ results = <<>>
    /\ goal = NoGoal
    /\ clock = 1
    /\ advice = <<>>
    /\ description = <<>>
    /\ categoryId = "none"
    /\ csvContent = <<>>
    /\ parsed = [status |-> "none", transactions |-> <<>>]
    /\ DateIdle
    /\ AppIdle

SpecYearTurn == InitYearTurn /\ [][NextAnomaly]_vars

(***************************************************************************)
(* Claims about the weeks detectAnomalies compares.                        *)
(***************************************************************************)

\* the year and week number of an instant
YearWeek(t) == [year |-> getFullYear(t, tzOffset), week |-> getWeekNumber(t, tzOffset)]

\* the week immediately preceding the current one: in the first week of a
\* year, the final week of the previous year
PrecedingWeek ==
    LET now == YearWeek(currentTime)
        newYear == DaysBeforeYear(now.year) * MinutesPerDay - tzOffset
    IN  IF now.week > 1 THEN [year |-> now.year, week |-> now.week - 1]
        ELSE YearWeek(newYear - 1)

\* the positions of the categories an alert is due for when the last-week
\* totals are those of the week numbered as the preceding week
DueByPrecedingWeek ==
    LET weeks == ExpenseWeeks
        currentWeek == getWeekNumber(currentTime, tzOffset)
        lastWeek == PrecedingWeek.week
    IN  SelectSeq([i \in 1..Len(categories) |-> i],
                  LAMBDA i :
                      /\ categories[i].name # "Others"
                      /\ Greater(WeekTotal(i, lastWeek, weeks), Int2Num(0))
                      /\ Greater(WeekTotal(i, currentWeek, weeks),
                                 Times(Int2Num(2), WeekTotal(i, lastWeek, weeks))))

\* C24: for every current date the current week is compared with the week
\* immediately preceding it: in the first week of a year the last-week
\* totals are those of the final week of the previous year, never those of
\* a week number that does not exist.
C24_PrecedingWeekExists ==
    (mode = "anomaly" /\ pc = "done")
        => LET due == DueByPrecedingWeek
           IN  /\ Len(alerts) = Len(due)
               /\ \A k \in 1..Len(alerts) : alerts[k][3] = categories[due[k]].name

\* the expenses dated in the current calendar week or in the one before it
InComparedWeeks ==
    SelectSeq(expenses,
              LAMBDA e : LET yw == YearWeek(dateTime(e.transactionDate))
                         IN  yw = YearWeek(currentTime) \/ yw = PrecedingWeek)

\* C28: an expense counts towards the this-week total only if its date is in
\* the current calendar week and towards the last-week total only if it is
\* in the preceding calendar week; an expense of another year with the same
\* week number never counts, so it neither causes nor suppresses an alert:
\* the alerts are those of the expenses of these two weeks alone.
C28_OtherYearsNeverCount ==
    (mode = "anomaly" /\ pc = "done")
        => alerts = detectAnomalies(InComparedWeeks, categories, currentTime, tzOffset)

(***************************************************************************)
(* parseCSV on date fields of any text: a complete header and rows whose   *)
(* date field has two-digit or one-digit parts in one of the three         *)
(* separators' orders, in range or not.                                    *)
(***************************************************************************)
MaxDateRows == 1

DateFieldDays == {<<"1", "5">>, <<"3", "1">>, <<"0", "0">>, <<"9", "9">>, <<"5">>}

DateFieldMonths == {<<"0", "1">>, <<"0", "2">>, <<"1", "3">>, <<"1">>}

DateFieldYear == <<"2", "0", "2", "4">>

DateFields ==
    UNION {{DateFieldYear \o <<"-">> \o m \o <<"-">> \o d,
            d \o <<"/">> \o m \o <<"/">> \o DateFieldYear,
            d \o <<"-">> \o m \o <<"-">> \o DateFieldYear} :
           d \in DateFieldDays, m \in DateFieldMonths}

DateRows == {f \o <<",", "T", "e", "a", ",", "1", "0">> : f \in DateFields}

DateRowLists == UNION {[1..k -> DateRows] : k \in 0..MaxDateRows}

DateCsvInputs == {JoinLines(<<<<"D", "a", "t", "e", ",", "D", "e", "s", "c", "r", "i", "p", "t", "i", "o", "n", ",", "A", "m", "o", "u", "n", "t">>>> \o rs) : rs \in DateRowLists}

InitCsvDates ==
    /\ mode = "csv"
    /\ pc = "input"
    /\ csvContent \in DateCsvInputs
    /\ today \in Todays
    /\ parsed = [status |-> "none", transactions |-> <<>>]
    /\ ClsIdle
    /\ DateIdle
    /\ AdvIdle
    /\ AppIdle
    /\ EngIdle

SpecCsvDates == InitCsvDates /\ [][NextCsv]_vars

(***************************************************************************)
(* Claims about the dates of the transactions.                             *)
(***************************************************************************)

\* YYYY-MM-DD with the month in 01..12 and the day one the month has
IsCalendarDate(s) ==
    /\ Len(s) = 10
    /\ \A p \in 1..10 : IF p \in {5, 8} THEN s[p] = "-" ELSE IsDigit(s[p])
    /\ LET y == DigitsValue(SubSeq(s, 1, 4))
           m == DigitsValue(SubSeq(s, 6, 7))
           d == DigitsValue(SubSeq(s, 9, 10))
       IN  m \in 1..12 /\ d \in 1..DaysIn(y, m)

\* C25: every transaction parseCSV returns carries a real calendar date in
\* the form YYYY-MM-DD (month 01 to 12, day valid for the month), whatever
\* the text of the date field: the field's date or the processing date.
C25_RealCalendarDates ==
    (mode = "csv" /\ pc = "done" /\ parsed.status = "ok")
        => \A i \in 1..Len(parsed.transactions) : IsCalendarDate(parsed.transactions[i].date)

(***************************************************************************)
(* components/GoalsTracker.tsx over local storage.                         *)
(***************************************************************************)
MaxGoalClock == 3

GoalTargets == {<<"1", "0", "0", "0">>, <<"-", "5", "0", "0">>}

\* allGoals.forEach without the deactivation
deactivateNone(allGoals, u) == allGoals

\* allGoals.forEach(g => { if (g.userId === user.id) g.active = false; })
deactivateOwn(allGoals, u) ==
    [k \in 1..Len(allGoals) |->
        IF allGoals[k].userId = u THEN [allGoals[k] EXCEPT !.active = FALSE] ELSE allGoals[k]]

\* loadData: storage.getGoals().filter(g => g.userId === user?.id).find(g => g.active) || null
activeGoalOf(stored, u) ==
    LET own == SelectSeq(stored, LAMBDA g : g.userId = u /\ g.active)
    IN  IF own = <<>> THEN NoGoal
        ELSE [present |-> TRUE, monthlyTarget |-> own[1].monthlyTarget, active |-> TRUE,
              id |-> own[1].id, userId |-> own[1].userId, currentMonth |-> own[1].currentMonth]

InitGoals ==
    /\ mode = "goals"
    /\ pc = "mounted"
    /\ user = "null"
    /\ currentTab = "goals"
    /\ storedExpenses = <<>>
    /\ expenses = <<>>
    /\ insights = <<>>
    /\ weeklyData = <<>>
    /\ upload = NoUpload
    /\ ScrIdle
    /\ categories = DEFAULT_CATEGORIES
    /\ today = AdvToday
    /\ clock = 1
    /\ goal = NoGoal
    /\ advice = <<>>
    /\ description = <<>>
    /\ categoryId = "none"
    /\ csvContent = <<>>
    /\ parsed = [status |-> "none", transactions |-> <<>>]
    /\ DateIdle
    /\ EngIdle

goalsFrame == <<mode, pc, currentTab, storedExpenses, expenses, insights, weeklyData, upload,
                storedUsers, storedCurrentUser, authUser, returned, categories, today,
                advice, description, categoryId, csvContent, parsed, dateVars, engVars>>

\* a registered user logs in; GoalsTracker mounts and loads
GoalsLogin(u) ==
    /\ mode = "goals"
    /\ user = "null"
    /\ user' = u
    /\ goal' = activeGoalOf(storedGoals, u)
    /\ UNCHANGED <<storedGoals, clock, goalsFrame>>

\* the user logs out; GoalsTracker unmounts
GoalsLogout ==
    /\ mode = "goals"
    /\ user # "null"
    /\ user' = "null"
    /\ goal' = NoGoal
    /\ UNCHANGED <<storedGoals, clock, goalsFrame>>

\* GoalsTracker.handleSubmit
handleSubmit(monthlyTarget) ==
    /\ mode = "goals"
    /\ user # "null"
    /\ monthlyTarget # <<>>
    /\ clock <= MaxGoalClock
    /\ LET newGoal == [id |-> <<"goal-", clock>>,
                       userId |-> user,
                       monthlyTarget |-> parseFloat(monthlyTarget),
                       currentMonth |-> SubSeq(today, 1, 7),
                       active |-> TRUE]
       IN  /\ storedGoals' = Append(deactivateOwn(storedGoals, user), newGoal)
           /\ goal' = activeGoalOf(storedGoals', user)
    /\ clock' = clock + 1
    /\ UNCHANGED <<user, goalsFrame>>

NextGoals ==
    \/ \E u \in UserIds : GoalsLogin(u)
    \/ GoalsLogout
    \/ \E t \in GoalTargets : handleSubmit(t)

SpecGoals == InitGoals /\ [][NextGoals]_vars

(***************************************************************************)
(* Claims about the stored goals.                                          *)
(***************************************************************************)

\* the stored goals of user u, in the order of their submission
GoalsOf(stored, u) == SelectSeq(stored, LAMBDA g : g.userId = u)

\* of u's goals exactly the most recently submitted one is active
OnlyLatestActive(u) ==
    LET own == GoalsOf(storedGoals, u)
    IN  \A k \in 1..Len(own) : own[k].active <=> k = Len(own)

\* C29: after any sequence of goal submissions by any users, every user has
\* at most one stored goal with active = true, and it is the goal that user
\* submitted most recently; a submission never changes the active flag (or
\* anything else) of another user's goals.
C29_OneActiveGoalPerUser ==
    /\ [](mode = "goals" => \A u \in UserIds : OnlyLatestActive(u))
    /\ [][mode = "goals" =>
            \A u \in UserIds : u # user => GoalsOf(storedGoals', u) = GoalsOf(storedGoals, u)]_vars

\* a user has replaced a goal while another user's goal is stored, and the
\* screen shows the replacement
C29_Witness ==
    /\ mode = "goals"
    /\ user # "null"
    /\ Len(GoalsOf(storedGoals, user)) >= 2
    /\ \E u \in UserIds : u # user /\ Len(GoalsOf(storedGoals, u)) >= 1
    /\ goal.present
    /\ goal.id = storedGoals[Len(storedGoals)].id

(***************************************************************************)
(* contexts/AuthContext.tsx over local storage.                            *)
(***************************************************************************)
Usernames == {<<"a", "n", "n">>, <<"A", "n", "n">>, <<"b", "o", "b">>}

Passwords == {<<"p", "w">>, <<"z", "z", "z", "z", "z", "z", "z">>}

FullNames == {<<"A", "n", "n", " ", "B">>}

\* String.prototype.charCodeAt for a lower-case letter
charCodeAt(c) == 96 + CHOOSE i \in 1..Len(LowerCase) : LowerCase[i] = c

\* one pass of the loop of hashPassword on the 32-bit hash held as two
\* 16-bit halves: hash = (hash << 5) - hash + char; hash = hash & hash
RECURSIVE hashHalves(_, _)
hashHalves(password, k) ==
    IF k = 0 THEN [hi |-> 0, lo |-> 0]
    ELSE LET h == hashHalves(password, k - 1)
             low == 31 * h.lo + charCodeAt(password[k])
         IN  [hi |-> (31 * h.hi + low \div 65536) % 65536, lo |-> low % 65536]

\* hashPassword: the signed 32-bit hash, whose decimal spelling is returned
hashPassword(password) ==
    LET h == hashHalves(password, Len(password))
    IN  IF h.hi >= 32768 THEN (h.hi - 65536) * 65536 + h.lo ELSE h.hi * 65536 + h.lo

\* the lookup that finds every name free
usernameNeverTaken(users, username) == FALSE

\* users.find(u => u.username === username)
usernameTaken(users, username) == \E i \in 1..Len(users) : users[i].username = username

\* users.find(u => u.username === username && u.passwordHash === hashPassword(password)),
\* as no user or the one found
findUser(users, username, password) ==
    LET hits == SelectSeq(users, LAMBDA u : u.username = username
                                            /\ u.passwordHash = hashPassword(password))
    IN  IF hits = <<>> THEN <<>> ELSE <<hits[1]>>

NoCall == <<"none">>

InitAuth ==
    /\ mode = "auth"
    /\ pc = "mounted"
    /\ storedUsers = <<>>
    /\ storedCurrentUser = <<>>
    /\ authUser = <<>>
    /\ returned = NoCall
    /\ storedGoals = <<>>
    /\ clock = 1
    /\ user = "null"
    /\ currentTab = "dashboard"
    /\ storedExpenses = <<>>
    /\ insights = <<>>
    /\ weeklyData = <<>>
    /\ upload = NoUpload
    /\ expenses = <<>>
    /\ goal = NoGoal
    /\ advice = <<>>
    /\ today = <<>>
    /\ csvContent = <<>>
    /\ parsed = [status |-> "none", transactions |-> <<>>]
    /\ ClsIdle
    /\ DateIdle
    /\ EngIdle

authFrame == <<mode, pc, storedGoals, user, currentTab, storedExpenses, insights, weeklyData,
               upload, expenses, goal, advice, today, clsVars, csvContent, parsed, dateVars,
               engVars>>

\* AuthContext.signup, called from the form shown while no user is logged in
signup(username, password, fullName) ==
    /\ mode = "auth"
    /\ authUser = <<>>
    /\ IF usernameTaken(storedUsers, username)
       THEN /\ returned' = <<"signup", username, FALSE>>
            /\ UNCHANGED <<storedUsers, authUser, storedCurrentUser, clock>>
       ELSE LET newUser == [id |-> <<"user-", clock>>,
                            username |-> username,
                            passwordHash |-> hashPassword(password),
                            fullName |-> fullName]
            IN  /\ storedUsers' = Append(storedUsers, newUser)
                /\ authUser' = <<newUser>>
                /\ storedCurrentUser' = <<newUser>>
                /\ returned' = <<"signup", username, TRUE>>
                /\ clock' = clock + 1
    /\ UNCHANGED authFrame

\* AuthContext.login, called from the same form
login(username, password) ==
    /\ mode = "auth"
    /\ authUser = <<>>
    /\ LET foundUser == findUser(storedUsers, username, password)
       IN  IF foundUser # <<>>
           THEN /\ authUser' = foundUser
                /\ storedCurrentUser' = foundUser
                /\ returned' = <<"login", username, TRUE>>
           ELSE /\ returned' = <<"login", username, FALSE>>
                /\ UNCHANGED <<authUser, storedCurrentUser>>
    /\ UNCHANGED <<storedUsers, clock, authFrame>>

\* AuthContext.logout
logout ==
    /\ mode = "auth"
    /\ authUser # <<>>
    /\ authUser' = <<>>
    /\ storedCurrentUser' = <<>>
    /\ returned' = <<"logout">>
    /\ UNCHANGED <<storedUsers, clock, authFrame>>

\* the page is loaded again: AuthProvider mounts and its effect reads the
\* current user from storage
AuthProviderMount ==
    /\ mode = "auth"
    /\ authUser' = storedCurrentUser
    /\ returned' = <<"mount">>
    /\ UNCHANGED <<storedUsers, storedCurrentUser, clock, authFrame>>

NextAuth ==
    \/ \E n \in Usernames, p \in Passwords, f \in FullNames : signup(n, p, f)
    \/ \E n \in Usernames, p \in Passwords : login(n, p)
    \/ logout
    \/ AuthProviderMount

SpecAuth == InitAuth /\ [][NextAuth]_vars

(***************************************************************************)
(* Claims about sign-up.                                                   *)
(***************************************************************************)

\* a step that is a signup with a username already stored returns false and
\* changes neither the stored users nor the current user
DuplicateRefused ==
    (/\ returned'[1] = "signup"
     /\ \E i \in 1..Len(storedUsers) : storedUsers[i].username = returned'[2])
        => /\ returned'[3] = FALSE
           /\ storedUsers' = storedUsers
           /\ authUser' = authUser
           /\ storedCurrentUser' = storedCurrentUser

\* C30: signup with a username that is already stored returns false and
\* leaves the stored user list and the current user unchanged; so the stored
\* usernames are pairwise distinct and the current user, when set, is one of
\* the stored users.
C30_DuplicateSignupRefused ==
    /\ [][mode = "auth" => DuplicateRefused]_vars
    /\ [](mode = "auth" =>
            /\ \A i, j \in 1..Len(storedUsers) :
                  i # j => storedUsers[i].username # storedUsers[j].username
            /\ \A u \in {authUser, storedCurrentUser} :
                  u # <<>> => \E i \in 1..Len(storedUsers) : storedUsers[i] = u[1])

\* a signup was refused while two users are stored
C30_Witness ==
    /\ mode = "auth"
    /\ returned[1] = "signup"
    /\ returned[3] = FALSE
    /\ Len(storedUsers) = 2

====
